---------------------------- MODULE Spec2Model ----------------------------
(***************************************************************************)
(* A model of the skstack-rs command session (src/src/lib.rs) over the     *)
(* serial transport (src/src/tty.rs).                                      *)
(*                                                                         *)
(* Text is a sequence of one-character strings.  The adapter is a          *)
(* concurrent process that puts whole records (one line, or an EPANDESC    *)
(* header with its field lines) on the wire; the session takes them off    *)
(* the wire one line per blocking read.  The session is sequential and     *)
(* sees the lines only in the order of the wire, so the adapter is let to  *)
(* emit its next record when the wire is drained: an adapter that runs     *)
(* further ahead shows the session the same lines and fewer timeouts.      *)
(***************************************************************************)
EXTENDS Integers, Sequences, FiniteSets, TLC

(***************************************************************************)
(* Bounds of the model.                                                    *)
(***************************************************************************)
\* descriptors one scan may collect
MaxFound == 2
\* events one join may pass over
MaxIgnored == 2
\* bytes of the stream the line reader is run on
MaxStream == 4
\* property records of a frame
MaxProps == 2
\* times one call of send_echonet_request sends its request
MaxAttempts == 2
\* events one attempt of send_echonet_request passes over
MaxPassed == 2
\* reads of the line reader's source that run out of time
MaxTimeouts == 1

(***************************************************************************)
(* Text primitives of the Rust standard library used by lib.rs.            *)
(***************************************************************************)
\* str::starts_with
StartsWith(s, p) == Len(s) >= Len(p) /\ SubSeq(s, 1, Len(p)) = p

\* the remainder that str::strip_prefix returns when the prefix matches
DropPrefix(s, p) == SubSeq(s, Len(p) + 1, Len(s))

\* char::is_whitespace, on the characters that occur on the wire
IsWhitespace(c) == c \in {" ", "\t"}

\* position of the first occurrence of c in s at or after i, 0 if none
RECURSIVE FindFrom(_, _, _)
FindFrom(s, c, i) ==
    IF i > Len(s) THEN 0
    ELSE IF s[i] = c THEN i
    ELSE FindFrom(s, c, i + 1)

\* str::split(c), collected: always at least one component
RECURSIVE Split(_, _)
Split(s, c) ==
    LET i == FindFrom(s, c, 1)
    IN  IF i = 0 THEN <<s>>
        ELSE <<SubSeq(s, 1, i - 1)>> \o Split(SubSeq(s, i + 1, Len(s)), c)

\* length of the longest prefix of s made of non-whitespace
RECURSIVE TokenLen(_)
TokenLen(s) ==
    IF s = <<>> \/ IsWhitespace(s[1]) THEN 0 ELSE 1 + TokenLen(Tail(s))

\* str::split_whitespace, collected: the maximal runs of non-whitespace
RECURSIVE SplitWhitespace(_)
SplitWhitespace(s) ==
    IF s = <<>> THEN <<>>
    ELSE IF IsWhitespace(s[1]) THEN SplitWhitespace(Tail(s))
    ELSE LET n == TokenLen(s)
         IN  <<SubSeq(s, 1, n)>> \o SplitWhitespace(SubSeq(s, n + 1, Len(s)))

\* [&str]::join(" ")
RECURSIVE JoinSpace(_)
JoinSpace(ts) ==
    IF ts = <<>> THEN <<>>
    ELSE IF Len(ts) = 1 THEN ts[1]
    ELSE ts[1] \o <<" ">> \o JoinSpace(Tail(ts))

\* char::to_digit(16)
HexDigit ==
    [c \in {"0", "1", "2", "3", "4", "5", "6", "7", "8", "9",
            "A", "B", "C", "D", "E", "F", "a", "b", "c", "d", "e", "f"} |->
        CASE c = "0" -> 0 [] c = "1" -> 1 [] c = "2" -> 2 [] c = "3" -> 3
          [] c = "4" -> 4 [] c = "5" -> 5 [] c = "6" -> 6 [] c = "7" -> 7
          [] c = "8" -> 8 [] c = "9" -> 9
          [] c \in {"A", "a"} -> 10 [] c \in {"B", "b"} -> 11
          [] c \in {"C", "c"} -> 12 [] c \in {"D", "d"} -> 13
          [] c \in {"E", "e"} -> 14 [] c \in {"F", "f"} -> 15]

RECURSIVE HexValue(_)
HexValue(ds) ==
    IF ds = <<>> THEN 0
    ELSE 16 * HexValue(SubSeq(ds, 1, Len(ds) - 1)) + HexDigit[ds[Len(ds)]]

U8Max == 255
U16Max == 65535

\* Result::Ok, Result::Err, and a panic that unwinds out of the call
Ok(v) == [tag |-> "Ok", val |-> v]
Err(e) == [tag |-> "Err", err |-> e]
Panic == [tag |-> "Panic"]

\* Error::ParseInt, Error::Decode, Error::UnexpectedEvent, Error::ExpectOK, Error::Io
ErrParseInt == [kind |-> "ParseInt"]
ErrDecode(msg, text) == [kind |-> "Decode", msg |-> msg, text |-> text]
ErrUnexpectedEvent(ev) == [kind |-> "UnexpectedEvent", event |-> ev]
ErrExpectOK(line) == [kind |-> "ExpectOK", line |-> line]
ErrIo(iokind) == [kind |-> "Io", iokind |-> iokind]

\* uN::from_str_radix(s, 16) for an unsigned type with maximum max: an
\* optional leading "+", at least one digit, no overflow
FromStrRadix16(s, max) ==
    LET ds == IF s # <<>> /\ s[1] = "+" THEN Tail(s) ELSE s
    IN  IF ds = <<>> THEN Err(ErrParseInt)
        ELSE IF \E i \in 1..Len(ds) : ds[i] \notin DOMAIN HexDigit THEN Err(ErrParseInt)
        ELSE IF HexValue(ds) > max THEN Err(ErrParseInt)
        ELSE Ok(HexValue(ds))

\* decode_hex: the pairs s[i..i+2] for i = 0, 2, 4, ... parsed in order, the
\* first parse error returned; slicing past the end of s panics
RECURSIVE decode_hex(_)
decode_hex(s) ==
    IF s = <<>> THEN Ok(<<>>)
    ELSE IF Len(s) < 2 THEN Panic
    ELSE LET b == FromStrRadix16(SubSeq(s, 1, 2), U8Max)
             rest == decode_hex(SubSeq(s, 3, Len(s)))
         IN  IF b.tag = "Err" THEN b
             ELSE IF rest.tag # "Ok" THEN rest
             ELSE Ok(<<b.val>> \o rest.val)

(***************************************************************************)
(* SKEvent and the single-line part of read_event.                         *)
(***************************************************************************)
EVER(version) == [type |-> "EVER", version |-> version]
EPANDESC(pan) == [type |-> "EPANDESC", pan |-> pan]
EVENT(code, sender) == [type |-> "EVENT", code |-> code, sender |-> sender]
ERXUDP(sender, dest, rport, lport, sender_lla, secured, datalen, data) ==
    [type |-> "ERXUDP", sender |-> sender, dest |-> dest, rport |-> rport,
     lport |-> lport, sender_lla |-> sender_lla, secured |-> secured,
     datalen |-> datalen, data |-> data]
Unknown(line) == [type |-> "Unknown", line |-> line]

SKPan(channel, channel_page, pan_id, addr, lqi, pair_id) ==
    [channel |-> channel, channel_page |-> channel_page, pan_id |-> pan_id,
     addr |-> addr, lqi |-> lqi, pair_id |-> pair_id]

P_EVER == <<"E", "V", "E", "R", " ">>
P_EPANDESC == <<"E", "P", "A", "N", "D", "E", "S", "C">>
P_EVENT == <<"E", "V", "E", "N", "T", " ">>
P_ERXUDP == <<"E", "R", "X", "U", "D", "P", " ">>
P_INDENT == <<" ", " ">>
OKText == <<"O", "K">>

\* the "EVENT " branch of read_event
ParseEVENT(rest) ==
    LET c == SplitWhitespace(rest)
    IN  IF Len(c) < 1 THEN Err(ErrDecode("failed to get code: ", rest))
        ELSE LET code == FromStrRadix16(c[1], U8Max)
             IN  IF code.tag = "Err" THEN code
                 ELSE IF Len(c) < 2 THEN Err(ErrDecode("failed to get sender: ", rest))
                 ELSE Ok(EVENT(code.val, c[2]))

\* the "ERXUDP " branch of read_event
ParseERXUDP(rest) ==
    LET c == SplitWhitespace(rest)
        rport == FromStrRadix16(c[3], U16Max)
        lport == FromStrRadix16(c[4], U16Max)
        secured == FromStrRadix16(c[6], U8Max)
        datalen == FromStrRadix16(c[7], U16Max)
        data == decode_hex(JoinSpace(SubSeq(c, 8, Len(c))))
    IN  IF Len(c) < 1 THEN Err(ErrDecode("failed to get sender: ", rest))
        ELSE IF Len(c) < 2 THEN Err(ErrDecode("failed to get dest: ", rest))
        ELSE IF Len(c) < 3 THEN Err(ErrDecode("failed to get rport: ", rest))
        ELSE IF rport.tag = "Err" THEN rport
        ELSE IF Len(c) < 4 THEN Err(ErrDecode("failed to get lport: ", rest))
        ELSE IF lport.tag = "Err" THEN lport
        ELSE IF Len(c) < 5 THEN Err(ErrDecode("failed to get sender_lla: ", rest))
        ELSE IF Len(c) < 6 THEN Err(ErrDecode("failed to get secured: ", rest))
        ELSE IF secured.tag = "Err" THEN secured
        ELSE IF Len(c) < 7 THEN Err(ErrDecode("failed to get datalen: ", rest))
        ELSE IF datalen.tag = "Err" THEN datalen
        ELSE IF data.tag # "Ok" THEN data
        ELSE Ok(ERXUDP(c[1], c[2], rport.val, lport.val, c[5], secured.val,
                       datalen.val, data.val))

\* a faulty first line: "EVENT" is taken for the prefix, without its space
ParseFirstLine_event_without_space(str) ==
    IF StartsWith(str, P_EVER) THEN Ok(EVER(DropPrefix(str, P_EVER)))
    ELSE IF StartsWith(str, P_EPANDESC) THEN [tag |-> "Fields"]
    ELSE IF StartsWith(str, <<"E", "V", "E", "N", "T">>)
         THEN ParseEVENT(DropPrefix(str, P_EVENT))
    ELSE IF StartsWith(str, P_ERXUDP) THEN ParseERXUDP(DropPrefix(str, P_ERXUDP))
    ELSE Ok(Unknown(str))

\* read_event on its first line: the event, an error, a panic, or "Fields"
\* when the line opens an EPANDESC record whose six field lines follow
ParseFirstLine(str) ==
    IF StartsWith(str, P_EVER) THEN Ok(EVER(DropPrefix(str, P_EVER)))
    ELSE IF StartsWith(str, P_EPANDESC) THEN [tag |-> "Fields"]
    ELSE IF StartsWith(str, P_EVENT) THEN ParseEVENT(DropPrefix(str, P_EVENT))
    ELSE IF StartsWith(str, P_ERXUDP) THEN ParseERXUDP(DropPrefix(str, P_ERXUDP))
    ELSE Ok(Unknown(str))

\* the closure read_field_value of read_event, applied to the line it read
read_field_value(line) ==
    IF StartsWith(line, P_INDENT)
    THEN LET components == Split(DropPrefix(line, P_INDENT), ":")
         IN  IF Len(components) < 2 THEN Err(ErrDecode("missing key", <<>>))
             ELSE Ok(components[2])
    ELSE Err(ErrDecode("", line))

\* the k-th of the six field reads of the EPANDESC branch: fields 1, 2 and 5
\* are hex u8, field 3 is hex u16, fields 4 and 6 are kept as text
ParseField(k, line) ==
    LET v == read_field_value(line)
    IN  IF v.tag = "Err" THEN v
        ELSE IF k \in {1, 2, 5} THEN FromStrRadix16(v.val, U8Max)
        ELSE IF k = 3 THEN FromStrRadix16(v.val, U16Max)
        ELSE v

\* the SKPan built from the six values in the order they were read
PanOf(vals) == SKPan(vals[1], vals[2], vals[3], vals[4], vals[5], vals[6])

(***************************************************************************)
(* What the adapter may put on the wire.  A record is one line, or an      *)
(* EPANDESC header followed by field lines.                                *)
(***************************************************************************)
L_OK == <<"O", "K">>
L_ECHO == <<"S", "K", "V", "E", "R">>
L_EVER == <<"E", "V", "E", "R", " ", "1", ".", "2">>
L_EV20 == <<"E", "V", "E", "N", "T", " ", "2", "0", " ", "F", "E">>
L_EV21 == <<"E", "V", "E", "N", "T", " ", "2", "1", " ", "F", "E">>
L_EV22 == <<"E", "V", "E", "N", "T", " ", "2", "2", " ", "F", "E">>
L_EV24 == <<"E", "V", "E", "N", "T", " ", "2", "4", " ", "F", "E">>
L_EV25 == <<"E", "V", "E", "N", "T", " ", "2", "5", " ", "F", "E">>
L_EVBAD == <<"E", "V", "E", "N", "T", " ", "Z", "Z", " ", "F", "E">>
L_PANHDR == <<"E", "P", "A", "N", "D", "E", "S", "C">>
L_CH_A == <<" ", " ", "C", "h", "a", "n", "n", "e", "l", ":", "2", "1">>
L_CH_B == <<" ", " ", "C", "h", "a", "n", "n", "e", "l", ":", "3", "B">>
L_PAGE == <<" ", " ", "C", "h", "a", "n", "n", "e", "l", " ", "P", "a", "g", "e", ":", "0", "9">>
L_PANID == <<" ", " ", "P", "a", "n", " ", "I", "D", ":", "8", "8", "8", "8">>
L_ADDR == <<" ", " ", "A", "d", "d", "r", ":", "0", "0", "1", "D">>
L_LQI == <<" ", " ", "L", "Q", "I", ":", "E", "1">>
L_PAIR == <<" ", " ", "P", "a", "i", "r", "I", "D", ":", "0", "0", "A", "B">>
L_NOCOLON == <<" ", " ", "L", "Q", "I">>
L_RXUDP == <<"E", "R", "X", "U", "D", "P", " ", "F", "E", " ", "F", "F", " ",
             "0", "E", "1", "A", " ", "0", "E", "1", "A", " ", "1", "D", " ",
             "1", " ", "0", "0", "0", "2", " ", "1", "0", "A", "1">>

RecordIds == {"OK", "ECHO", "EVER", "EV20", "EV21", "EV22", "EV24", "EV25",
              "EVBAD", "PAN_A", "PAN_B", "PAN_BAD", "RXUDP"}

RecordLines(id) ==
    CASE id = "OK" -> <<L_OK>>
      [] id = "ECHO" -> <<L_ECHO>>
      [] id = "EVER" -> <<L_EVER>>
      [] id = "EV20" -> <<L_EV20>>
      [] id = "EV21" -> <<L_EV21>>
      [] id = "EV22" -> <<L_EV22>>
      [] id = "EV24" -> <<L_EV24>>
      [] id = "EV25" -> <<L_EV25>>
      [] id = "EVBAD" -> <<L_EVBAD>>
      [] id = "PAN_A" -> <<L_PANHDR, L_CH_A, L_PAGE, L_PANID, L_ADDR, L_LQI, L_PAIR>>
      [] id = "PAN_B" -> <<L_PANHDR, L_CH_B, L_PAGE, L_PANID, L_ADDR, L_LQI, L_PAIR>>
      [] id = "PAN_BAD" -> <<L_PANHDR, L_CH_A, L_NOCOLON>>
      [] id = "RXUDP" -> <<L_RXUDP>>

\* the lines of a record as they sit on the wire; rec, idx and of say which
\* record a line belongs to and are not visible to the session
WireLines(id) ==
    [i \in 1..Len(RecordLines(id)) |->
        [text |-> RecordLines(id)[i], rec |-> id, idx |-> i,
         of |-> Len(RecordLines(id))]]

NoLine == [text |-> <<>>, rec |-> "none", idx |-> 0, of |-> 0]

(***************************************************************************)
(* State.                                                                  *)
(***************************************************************************)
VARIABLES
    stream,     \* lines the adapter has emitted and the session has not read
    closed,     \* the adapter's end of the line is gone: the stream has ended
    timeout,    \* TTYPort.timeout is Some(_)
    op,         \* the operation running, or the last one that ran
    pc,         \* where it is: "idle", "echo", "ok", "event", "line",
                \* "loop", "pan", "done"
    fld,        \* inside read_event: 0, or the EPANDESC field to read next
    vals,       \* inside read_event: the EPANDESC field values read so far
    found,      \* scan's found
    ver,        \* version's version
    result,     \* what the last operation returned
    wrote,      \* commands written by the operation
    nlines,     \* lines the operation took off the wire
    discarded,  \* of these, lines it dropped without looking at them
    last,       \* the last line taken off the wire
    scanned,    \* records scan took off the wire after its acknowledgement
    ignored,    \* events join passed over
    cause,      \* what the transport did to the operation's last read or write
    sendto,     \* the payload send_udp is called with, and the SKSENDTO
                \* command it wrote last
    reader,     \* the line reader run on its own over a chunked byte source
    codec,      \* EFrame::as_bytes and EFrame::from_bytes run on their own
    parser,     \* read_event run on its own on one line
    request,    \* send_echonet_request, the request loop of the caller
    caller      \* main of the caller, up to its call of join

\* the session over the transport
session == <<stream, closed, timeout, op, pc, fld, vals, found, ver, result,
             wrote, nlines, discarded, last, scanned, ignored, cause, sendto>>

\* the parts run on their own
parts == <<reader, codec, parser, request, caller>>

vars == <<stream, closed, timeout, op, pc, fld, vals, found, ver, result,
          wrote, nlines, discarded, last, scanned, ignored, cause, sendto,
          reader, codec, parser, request, caller>>

\* a part that is not running
Idle == [pc |-> "off"]

CRLF == <<"\r", "\n">>
None == [tag |-> "None"]

CmdOps == {"version", "set_password", "set_rbid", "scan", "set_register",
           "get_link_local_addr", "join", "send_udp"}
Ops == CmdOps \cup {"receive", "read_event"}

(***************************************************************************)
(* TTYPort: poll(2), read(2) and write(2) as the session sees them.        *)
(***************************************************************************)
\* io::Error::from_raw_os_error(errno).kind()
ErrnoKind(errno) ==
    CASE errno = "EINTR" -> "Interrupted"
      [] errno = "EINVAL" -> "InvalidInput"
      [] errno = "ENOMEM" -> "OutOfMemory"
      [] errno = "EPIPE" -> "BrokenPipe"
      [] OTHER -> "Uncategorized"

\* what poll(2) can answer for flag ev on the descriptor in its current state
PollChoices(ev) ==
    {[res |-> "Err", errno |-> "EINTR"],
     [res |-> "Ok", n |-> 1, revents |-> {"POLLERR"}]}
    \cup (IF ev = "POLLOUT"
          THEN {[res |-> "Ok", n |-> 0, revents |-> {}],
                [res |-> "Ok", n |-> 1, revents |-> {"POLLOUT"}]}
          ELSE IF stream # <<>>
          THEN {[res |-> "Ok", n |-> 1, revents |-> {"POLLIN"}]}
          ELSE IF closed
          THEN {[res |-> "Ok", n |-> 1, revents |-> {"POLLIN"}]}
          ELSE {[res |-> "Ok", n |-> 0, revents |-> {}]})
    \cup (IF closed
          THEN {[res |-> "Ok", n |-> 1, revents |-> {ev, "POLLHUP"}],
                [res |-> "Ok", n |-> 1, revents |-> {"POLLHUP"}]}
          ELSE {})

\* what read(2) can answer: the bytes of the next line, 0 at the end of the
\* stream, or an error; with nothing to read and the stream open it blocks
ReadChoices ==
    {[res |-> "Err", errno |-> e] : e \in {"EINTR", "EIO"}}
    \cup (IF stream # <<>>
          THEN {[res |-> "Ok", bytes |-> Head(stream).text \o CRLF]}
          ELSE IF closed THEN {[res |-> "Ok", bytes |-> <<>>]}
          ELSE {})

\* what write(2) can answer
WriteChoices ==
    {[res |-> "Err", errno |-> "EIO"]}
    \cup (IF closed THEN {[res |-> "Err", errno |-> "EPIPE"]}
          ELSE {[res |-> "Ok"]})

\* a faulty wait_fd: a poll that ran out of time is reported like any other
\* poll failure
wait_fd_timeout_as_other(events, poll) ==
    IF poll.res = "Err" THEN Err(ErrnoKind(poll.errno))
    ELSE IF poll.n # 1 THEN Err("Other")
    ELSE IF poll.revents = {events} THEN Ok(<<>>)
    ELSE IF "POLLHUP" \in poll.revents \/ "POLLNVAL" \in poll.revents
         THEN Err("BrokenPipe")
    ELSE Err("Other")

\* wait_fd, given poll's answer: Ok, or the kind of the io::Error
wait_fd(events, poll) ==
    IF poll.res = "Err" THEN Err(ErrnoKind(poll.errno))
    ELSE IF poll.n # 1 THEN Err("TimedOut")
    ELSE IF poll.revents = {events} THEN Ok(<<>>)
    ELSE IF "POLLHUP" \in poll.revents \/ "POLLNVAL" \in poll.revents
         THEN Err("BrokenPipe")
    ELSE Err("Other")

\* impl io::Read for TTYPort
TTYRead(poll, rd) ==
    IF timeout /\ wait_fd("POLLIN", poll).tag = "Err" THEN wait_fd("POLLIN", poll)
    ELSE IF rd.res = "Err" THEN Err(ErrnoKind(rd.errno))
    ELSE Ok(rd.bytes)

\* impl io::Write for TTYPort
TTYWrite(poll, wr) ==
    IF timeout /\ wait_fd("POLLOUT", poll).tag = "Err" THEN wait_fd("POLLOUT", poll)
    ELSE IF wr.res = "Err" THEN Err(ErrnoKind(wr.errno))
    ELSE Ok(<<>>)

(***************************************************************************)
(* The line reader.                                                        *)
(***************************************************************************)
\* a faulty turn: the LF of the terminator is consumed and not put in buf
ScanAvailable_lf_left_out(available) ==
    LET i == FindFrom(available, "\r", 1)
    IN  IF i # 0 /\ i + 1 <= Len(available) /\ available[i + 1] = "\n"
        THEN [done |-> TRUE, used |-> i + 1, bytes |-> SubSeq(available, 1, i)]
        ELSE [done |-> FALSE, used |-> Len(available), bytes |-> available]

\* one turn of the loop of read_until_crlf on the bytes fill_buf offers:
\* memchr finds the first CR; the line is done when LF is right behind it
ScanAvailable(available) ==
    LET i == FindFrom(available, "\r", 1)
    IN  IF i # 0 /\ i + 1 <= Len(available) /\ available[i + 1] = "\n"
        THEN [done |-> TRUE, used |-> i + 1, bytes |-> SubSeq(available, 1, i + 1)]
        ELSE [done |-> FALSE, used |-> Len(available), bytes |-> available]

\* read_until_crlf when fill_buf offers src: Retry on Interrupted, the error,
\* or the bytes put in buf; the wire hands over one terminated line per read
\* or nothing at the end of the stream, so the loop ends in its first turn
read_until_crlf(src) ==
    IF src.tag = "Err"
    THEN IF src.err = "Interrupted" THEN [tag |-> "Retry"] ELSE Err(ErrIo(src.err))
    ELSE Ok(ScanAvailable(src.val).bytes)

\* buf[..buf.len() - 2] in read_line
StripTerminator(buf) ==
    IF Len(buf) < 2 THEN Panic ELSE Ok(SubSeq(buf, 1, Len(buf) - 2))

\* a faulty read_line: only the LF is cut off, the CR stays in the line
read_line_keeps_cr(src) ==
    LET r == read_until_crlf(src)
    IN  IF r.tag # "Ok" THEN r
        ELSE IF Len(r.val) < 1 THEN Panic
        ELSE Ok(SubSeq(r.val, 1, Len(r.val) - 1))

\* read_line: buf without its last two bytes; the slice panics on a buf
\* shorter than two bytes
read_line(src) ==
    LET r == read_until_crlf(src)
    IN  IF r.tag # "Ok" THEN r
        ELSE StripTerminator(r.val)

\* read_line_str: every byte on the wire is ASCII, so from_utf8 succeeds
read_line_str(src) == read_line(src)

\* a faulty consume_ok: the line is read and not compared
consume_ok_any_line(line) == Ok(<<>>)

\* consume_ok, given the line it read
consume_ok(line) == IF line = OKText THEN Ok(<<>>) ELSE Err(ErrExpectOK(line))

\* a faulty read_event: a seventh field line is read
ReadEventStep_seven_fields(k, vs, line) ==
    IF k = 0
    THEN LET r == ParseFirstLine(line)
         IN  IF r.tag = "Fields" THEN [tag |-> "More", fld |-> 1, vals |-> <<>>]
             ELSE r
    ELSE LET v == ParseField(k, line)
         IN  IF v.tag = "Err" THEN v
             ELSE IF k < 7 THEN [tag |-> "More", fld |-> k + 1, vals |-> Append(vs, v.val)]
             ELSE Ok(EPANDESC(PanOf(Append(vs, v.val))))

\* read_event, given the next line it read: "More" while EPANDESC field lines
\* are due, else the event, the error or the panic it ends with
ReadEventStep(k, vs, line) ==
    IF k = 0
    THEN LET r == ParseFirstLine(line)
         IN  IF r.tag = "Fields" THEN [tag |-> "More", fld |-> 1, vals |-> <<>>]
             ELSE r
    ELSE LET v == ParseField(k, line)
         IN  IF v.tag = "Err" THEN v
             ELSE IF k < 6 THEN [tag |-> "More", fld |-> k + 1, vals |-> Append(vs, v.val)]
             ELSE Ok(EPANDESC(PanOf(Append(vs, v.val))))

(***************************************************************************)
(* The SKSENDTO command of send_udp.                                       *)
(***************************************************************************)
\* the address send_udp is called with
PeerAddr == <<"F", "E", "8", "0", ":", ":", "1">>

\* the payload send_udp is called with where no other is chosen
FirstPayload == <<16, 129, 18, 52>>

\* format!("{:X}") and format!("{:04X}"): upper-case hexadecimal, padded
\* with zeros on the left up to width
RECURSIVE UpperHex(_)
UpperHex(n) ==
    LET d == <<"0", "1", "2", "3", "4", "5", "6", "7", "8", "9",
               "A", "B", "C", "D", "E", "F">>
    IN  IF n < 16 THEN <<d[n + 1]>> ELSE UpperHex(n \div 16) \o <<d[(n % 16) + 1]>>

FormatUpperHex(n, width) ==
    IF Len(UpperHex(n)) >= width THEN UpperHex(n)
    ELSE [i \in 1..(width - Len(UpperHex(n))) |-> "0"] \o UpperHex(n)

\* a faulty command: the length of the payload is written in decimal
send_udp_command_decimal_length(handle, ip_v6_addr, port, bytes) ==
    LET d == <<"0", "1", "2", "3", "4", "5", "6", "7", "8", "9">>
        n == Len(bytes)
    IN  [text |-> <<"S", "K", "S", "E", "N", "D", "T", "O", " ">>
                   \o FormatUpperHex(handle, 1) \o <<" ">> \o ip_v6_addr \o <<" ">>
                   \o FormatUpperHex(port, 4) \o <<" ", "1", " ">>
                   \o <<d[((n \div 1000) % 10) + 1], d[((n \div 100) % 10) + 1],
                        d[((n \div 10) % 10) + 1], d[(n % 10) + 1]>> \o <<" ">>,
         payload |-> bytes,
         end |-> CRLF]

\* the command send_udp writes: the text up to the payload, the payload
\* bytes as they are (from_utf8_unchecked), and the terminator
send_udp_command(handle, ip_v6_addr, port, bytes) ==
    [text |-> <<"S", "K", "S", "E", "N", "D", "T", "O", " ">>
               \o FormatUpperHex(handle, 1) \o <<" ">> \o ip_v6_addr \o <<" ">>
               \o FormatUpperHex(port, 4) \o <<" ", "1", " ">>
               \o FormatUpperHex(Len(bytes), 4) \o <<" ">>,
     payload |-> bytes,
     end |-> CRLF]

(***************************************************************************)
(* The adapter.                                                            *)
(***************************************************************************)
Init ==
    /\ stream = <<>>
    /\ closed = FALSE
    /\ timeout \in BOOLEAN
    /\ op = "none"
    /\ pc = "idle"
    /\ fld = 0
    /\ vals = <<>>
    /\ found = <<>>
    /\ ver = <<>>
    /\ result = None
    /\ wrote = 0
    /\ nlines = 0
    /\ discarded = 0
    /\ last = NoLine
    /\ scanned = <<>>
    /\ ignored = 0
    /\ cause = "none"
    /\ sendto = [bytes |-> FirstPayload, cmd |-> None]
    /\ reader = Idle /\ codec = Idle /\ parser = Idle /\ request = Idle /\ caller = Idle

\* the session at rest, while a part is run on its own
SessionAtRest ==
    /\ stream = <<>>
    /\ closed = FALSE
    /\ timeout = TRUE
    /\ op = "none"
    /\ pc = "idle"
    /\ fld = 0
    /\ vals = <<>>
    /\ found = <<>>
    /\ ver = <<>>
    /\ result = None
    /\ wrote = 0
    /\ nlines = 0
    /\ discarded = 0
    /\ last = NoLine
    /\ scanned = <<>>
    /\ ignored = 0
    /\ cause = "none"
    /\ sendto = [bytes |-> FirstPayload, cmd |-> None]

\* the adapter puts its next record on the wire
AdapterEmit ==
    /\ ~closed
    /\ stream = <<>>
    /\ \E id \in RecordIds : stream' = stream \o WireLines(id)
    /\ UNCHANGED <<closed, timeout, op, pc, fld, vals, found, ver, result,
                   wrote, nlines, discarded, last, scanned, ignored, cause, sendto>>
    /\ UNCHANGED parts

\* the adapter's end of the line goes away: the stream ends
AdapterClose ==
    /\ ~closed
    /\ closed' = TRUE
    /\ UNCHANGED <<stream, timeout, op, pc, fld, vals, found, ver, result,
                   wrote, nlines, discarded, last, scanned, ignored, cause, sendto>>
    /\ UNCHANGED parts

(***************************************************************************)
(* The session: the steps shared by its operations.                        *)
(***************************************************************************)
\* SKSTACK::write
write(poll, wr) ==
    LET w == TTYWrite(poll, wr)
    IN  IF w.tag = "Err" THEN Err(ErrIo(w.err)) ELSE w

\* what the transport did, for the record: the poll ran out of time, the
\* read met the end of the stream, or something else
Cause(ev, poll, rd) ==
    IF timeout /\ poll.res = "Ok" /\ poll.n = 0 THEN "timeout"
    ELSE IF (~timeout \/ wait_fd(ev, poll).tag = "Ok")
            /\ ev = "POLLIN" /\ rd.res = "Ok" /\ rd.bytes = <<>> THEN "eof"
    ELSE "error"

\* the transport's answers to one write and to one read, with their cause
WriteOutcomes ==
    {[w |-> write(poll, wr), cause |-> Cause("POLLOUT", poll, wr)] :
        poll \in PollChoices("POLLOUT"), wr \in WriteChoices}

ReadOutcomes ==
    {[src |-> TTYRead(poll, rd), cause |-> Cause("POLLIN", poll, rd)] :
        poll \in PollChoices("POLLIN"), rd \in ReadChoices}

Return(r) == pc' = "done" /\ result' = r
Goto(p) == pc' = p /\ result' = None

\* the operation o is called: its locals are fresh; a command operation
\* writes its command cmdline first and returns the write's error, if any
Start(o) ==
    /\ pc \in {"idle", "done"}
    /\ result.tag # "Panic"
    /\ op' = o
    /\ fld' = 0 /\ vals' = <<>> /\ found' = <<>> /\ ver' = <<>>
    /\ nlines' = 0 /\ discarded' = 0 /\ last' = NoLine /\ scanned' = <<>>
    /\ ignored' = 0
    /\ UNCHANGED <<stream, closed, timeout>>
    /\ UNCHANGED parts
    /\ IF o \in CmdOps
       THEN \E x \in WriteOutcomes :
                IF x.w.tag = "Ok"
                THEN wrote' = 1 /\ Goto("echo") /\ cause' = "none"
                ELSE wrote' = 0 /\ Return(x.w) /\ cause' = x.cause
       ELSE wrote' = 0 /\ Goto(IF o = "receive" THEN "line" ELSE "event")
            /\ cause' = "none"
    /\ sendto' = [sendto EXCEPT !.cmd =
                    IF o = "send_udp" /\ wrote' = 1
                    THEN send_udp_command(1, PeerAddr, 3610, sendto.bytes)
                    ELSE None]

\* self.read_line_str()?; with the line dropped
Discard(p) ==
    /\ discarded' = discarded + 1
    /\ Goto(p)
    /\ UNCHANGED <<fld, vals, found, ver, ignored>>

\* self.consume_ok()?;
Acknowledged(line, p) ==
    /\ IF consume_ok(line).tag = "Ok" THEN Goto(p) ELSE Return(consume_ok(line))
    /\ UNCHANGED <<fld, vals, found, ver, discarded, ignored>>

(***************************************************************************)
(* The operations of SKSTACK.                                              *)
(***************************************************************************)
\* a faulty version: an event other than EVER is passed over and the
\* acknowledgement is read next
version_event_any(e) ==
    /\ ver' = IF e.type = "EVER" THEN e.version ELSE ver
    /\ Goto("ok")
    /\ UNCHANGED <<found, ignored>>

version_event(e) ==
    IF e.type = "EVER"
    THEN ver' = e.version /\ Goto("ok") /\ UNCHANGED <<found, ignored>>
    ELSE Return(Err(ErrUnexpectedEvent(e))) /\ UNCHANGED <<found, ver, ignored>>

\* a faulty scan loop: any event that is not EVENT 20 ends the scan with
\* what was found
scan_top_any_end(e) ==
    IF e.type = "EVENT" /\ e.code = 32
    THEN Len(found) < MaxFound /\ Goto("pan") /\ UNCHANGED <<found, ver, ignored>>
    ELSE Return(Ok(found)) /\ UNCHANGED <<found, ver, ignored>>

scan_top(e) ==
    IF e.type = "EVENT" /\ e.code = 32
    THEN Len(found) < MaxFound /\ Goto("pan") /\ UNCHANGED <<found, ver, ignored>>
    ELSE IF e.type = "EVENT" /\ e.code = 34
    THEN Return(Ok(found)) /\ UNCHANGED <<found, ver, ignored>>
    ELSE Return(Err(ErrUnexpectedEvent(e))) /\ UNCHANGED <<found, ver, ignored>>

\* a faulty scan: the newest descriptor is put in front
scan_pan_newest_first(e) ==
    IF e.type = "EPANDESC"
    THEN found' = <<e.pan>> \o found /\ Goto("loop") /\ UNCHANGED <<ver, ignored>>
    ELSE Return(Err(ErrUnexpectedEvent(e))) /\ UNCHANGED <<found, ver, ignored>>

scan_pan(e) ==
    IF e.type = "EPANDESC"
    THEN found' = Append(found, e.pan) /\ Goto("loop") /\ UNCHANGED <<ver, ignored>>
    ELSE Return(Err(ErrUnexpectedEvent(e))) /\ UNCHANGED <<found, ver, ignored>>

\* a faulty join: EVENT 24 is passed over like any other event
join_event_24_passed_over(e) ==
    IF e.type = "EVENT" /\ e.code = 37
    THEN Return(Ok(<<>>)) /\ UNCHANGED <<found, ver, ignored>>
    ELSE ignored < MaxIgnored /\ ignored' = ignored + 1 /\ Goto("loop")
         /\ UNCHANGED <<found, ver>>

\* a faulty join: every event that is not EVENT 25 ends join with an error
join_event_strict(e) ==
    IF e.type = "EVENT" /\ e.code = 37
    THEN Return(Ok(<<>>)) /\ UNCHANGED <<found, ver, ignored>>
    ELSE Return(Err(ErrUnexpectedEvent(e))) /\ UNCHANGED <<found, ver, ignored>>

join_event(e) ==
    IF e.type = "EVENT" /\ e.code = 37
    THEN Return(Ok(<<>>)) /\ UNCHANGED <<found, ver, ignored>>
    ELSE IF e.type = "EVENT" /\ e.code = 36
    THEN Return(Err(ErrUnexpectedEvent(e))) /\ UNCHANGED <<found, ver, ignored>>
    ELSE ignored < MaxIgnored /\ ignored' = ignored + 1 /\ Goto("loop")
         /\ UNCHANGED <<found, ver>>

read_event_done(e) == Return(Ok(e)) /\ UNCHANGED <<found, ver, ignored>>

\* the match of the operation that called read_event
HandleEvent(e) ==
    CASE op = "version" -> version_event(e)
      [] op = "scan" /\ pc = "loop" -> scan_top(e)
      [] op = "scan" /\ pc = "pan" -> scan_pan(e)
      [] op = "join" -> join_event(e)
      [] op = "read_event" -> read_event_done(e)

\* self.read_event()? on one more line, and then the caller's match
OnEvent(line) ==
    LET e == ReadEventStep(fld, vals, line)
    IN  IF e.tag = "More"
        THEN /\ fld' = e.fld /\ vals' = e.vals
             /\ Goto(pc)
             /\ UNCHANGED <<found, ver, discarded, ignored>>
        ELSE /\ fld' = 0 /\ vals' = <<>>
             /\ discarded' = discarded
             /\ IF e.tag = "Ok" THEN HandleEvent(e.val)
                ELSE Return(e) /\ UNCHANGED <<found, ver, ignored>>

version_step(line) ==
    CASE pc = "echo" -> Discard("event")
      [] pc = "event" -> OnEvent(line)
      [] pc = "ok" ->
            /\ IF consume_ok(line).tag = "Ok" THEN Return(Ok(ver))
               ELSE Return(consume_ok(line))
            /\ UNCHANGED <<fld, vals, found, ver, discarded, ignored>>

\* a faulty body: the echo line is not skipped, the first line is already
\* taken for the acknowledgement
set_step_without_echo(line) ==
    /\ IF consume_ok(line).tag = "Ok" THEN Return(Ok(<<>>))
       ELSE Return(consume_ok(line))
    /\ UNCHANGED <<fld, vals, found, ver, discarded, ignored>>

\* set_password, set_rbid and set_register have the same body
set_step(line) ==
    CASE pc = "echo" -> Discard("ok")
      [] pc = "ok" ->
            /\ IF consume_ok(line).tag = "Ok" THEN Return(Ok(<<>>))
               ELSE Return(consume_ok(line))
            /\ UNCHANGED <<fld, vals, found, ver, discarded, ignored>>

scan_step(line) ==
    CASE pc = "echo" -> Discard("ok")
      [] pc = "ok" -> Acknowledged(line, "loop")
      [] pc = "loop" -> OnEvent(line)
      [] pc = "pan" -> OnEvent(line)

get_link_local_addr_step(line) ==
    CASE pc = "echo" -> Discard("line")
      [] pc = "line" ->
            /\ Return(Ok(line))
            /\ UNCHANGED <<fld, vals, found, ver, discarded, ignored>>

join_step(line) ==
    CASE pc = "echo" -> Discard("ok")
      [] pc = "ok" -> Acknowledged(line, "loop")
      [] pc = "loop" -> OnEvent(line)

send_udp_step(line) ==
    /\ discarded' = discarded + 1
    /\ Return(Ok(<<>>))
    /\ UNCHANGED <<fld, vals, found, ver, ignored>>

receive_step(line) ==
    /\ discarded' = discarded + 1
    /\ Return(Ok(<<>>))
    /\ UNCHANGED <<fld, vals, found, ver, ignored>>

read_event_step(line) == OnEvent(line)

\* the body of the operation o, continued with the line it read
Step(o, line) ==
    CASE o = "version" -> version_step(line)
      [] o \in {"set_password", "set_rbid", "set_register"} -> set_step(line)
      [] o = "scan" -> scan_step(line)
      [] o = "get_link_local_addr" -> get_link_local_addr_step(line)
      [] o = "join" -> join_step(line)
      [] o = "send_udp" -> send_udp_step(line)
      [] o = "receive" -> receive_step(line)
      [] o = "read_event" -> read_event_step(line)

\* a faulty session: when the operation fails on the line it read, the line
\* is put back for the next operation
Read_puts_back(o) ==
    /\ op = o
    /\ pc \notin {"idle", "done"}
    /\ UNCHANGED parts
    /\ \E x \in ReadOutcomes :
        LET src == x.src
            r == read_line_str(src)
        IN  /\ UNCHANGED <<closed, timeout, op, wrote, sendto>>
            /\ IF r.tag = "Ok"
               THEN /\ last' = [Head(stream) EXCEPT !.text = r.val]
                    /\ nlines' = nlines + 1
                    /\ cause' = "none"
                    /\ scanned' =
                         IF o = "scan" /\ pc \in {"loop", "pan"}
                            /\ Head(stream).idx = Head(stream).of
                         THEN Append(scanned, Head(stream).rec)
                         ELSE scanned
                    /\ Step(o, r.val)
               ELSE IF r.tag = "Retry"
               THEN UNCHANGED <<pc, fld, vals, found, ver, result, nlines,
                                discarded, last, scanned, ignored, cause>>
               ELSE /\ Return(r)
                    /\ cause' = x.cause
                    /\ UNCHANGED <<fld, vals, found, ver, nlines, discarded,
                                   last, scanned, ignored>>
            /\ stream' = IF src.tag = "Ok" /\ src.val # <<>>
                            /\ ~(r.tag = "Ok" /\ result'.tag = "Err")
                         THEN Tail(stream)
                         ELSE stream

\* the operation o blocks in one read_line_str and goes on with the line it
\* gets; every read site hands a failure to its caller
Read(o) ==
    /\ op = o
    /\ pc \notin {"idle", "done"}
    /\ UNCHANGED parts
    /\ \E x \in ReadOutcomes :
        LET src == x.src
            r == read_line_str(src)
        IN  /\ UNCHANGED <<closed, timeout, op, wrote, sendto>>
            /\ stream' = IF src.tag = "Ok" /\ src.val # <<>> THEN Tail(stream)
                         ELSE stream
            /\ IF r.tag = "Ok"
               THEN /\ last' = [Head(stream) EXCEPT !.text = r.val]
                    /\ nlines' = nlines + 1
                    /\ cause' = "none"
                    /\ scanned' =
                         IF o = "scan" /\ pc \in {"loop", "pan"}
                            /\ Head(stream).idx = Head(stream).of
                         THEN Append(scanned, Head(stream).rec)
                         ELSE scanned
                    /\ Step(o, r.val)
               ELSE IF r.tag = "Retry"
               THEN UNCHANGED <<pc, fld, vals, found, ver, result, nlines,
                                discarded, last, scanned, ignored, cause>>
               ELSE /\ Return(r)
                    /\ cause' = x.cause
                    /\ UNCHANGED <<fld, vals, found, ver, nlines, discarded,
                                   last, scanned, ignored>>

version == Start("version") \/ Read("version")

set_password == Start("set_password") \/ Read("set_password")

set_rbid == Start("set_rbid") \/ Read("set_rbid")

set_register == Start("set_register") \/ Read("set_register")

scan == Start("scan") \/ Read("scan")

get_link_local_addr ==
    Start("get_link_local_addr")
    \/ Read("get_link_local_addr")

join == Start("join") \/ Read("join")

send_udp == Start("send_udp") \/ Read("send_udp")

receive == Start("receive") \/ Read("receive")

read_event == Start("read_event") \/ Read("read_event")

Next ==
    \/ AdapterEmit
    \/ AdapterClose
    \/ version
    \/ set_password
    \/ set_rbid
    \/ scan
    \/ set_register
    \/ get_link_local_addr
    \/ join
    \/ send_udp
    \/ receive
    \/ read_event

Spec == Init /\ [][Next]_vars

(***************************************************************************)
(* What the records on the wire mean, written down independently of the    *)
(* parser: the event each well-formed record stands for.                   *)
(***************************************************************************)
WellFormedIds == {"OK", "ECHO", "EVER", "EV20", "EV21", "EV22", "EV24", "EV25",
                  "PAN_A", "PAN_B", "RXUDP"}

PanIds == {"PAN_A", "PAN_B"}

T_FE == <<"F", "E">>

Meaning(id) ==
    CASE id = "OK" -> [type |-> "Unknown", line |-> <<"O", "K">>]
      [] id = "ECHO" -> [type |-> "Unknown", line |-> <<"S", "K", "V", "E", "R">>]
      [] id = "EVER" -> [type |-> "EVER", version |-> <<"1", ".", "2">>]
      [] id = "EV20" -> [type |-> "EVENT", code |-> 32, sender |-> T_FE]
      [] id = "EV21" -> [type |-> "EVENT", code |-> 33, sender |-> T_FE]
      [] id = "EV22" -> [type |-> "EVENT", code |-> 34, sender |-> T_FE]
      [] id = "EV24" -> [type |-> "EVENT", code |-> 36, sender |-> T_FE]
      [] id = "EV25" -> [type |-> "EVENT", code |-> 37, sender |-> T_FE]
      [] id = "PAN_A" ->
            [type |-> "EPANDESC",
             pan |-> [channel |-> 33, channel_page |-> 9, pan_id |-> 34952,
                      addr |-> <<"0", "0", "1", "D">>, lqi |-> 225,
                      pair_id |-> <<"0", "0", "A", "B">>]]
      [] id = "PAN_B" ->
            [type |-> "EPANDESC",
             pan |-> [channel |-> 59, channel_page |-> 9, pan_id |-> 34952,
                      addr |-> <<"0", "0", "1", "D">>, lqi |-> 225,
                      pair_id |-> <<"0", "0", "A", "B">>]]
      [] id = "RXUDP" ->
            [type |-> "ERXUDP", sender |-> T_FE, dest |-> <<"F", "F">>,
             rport |-> 3610, lport |-> 3610, sender_lla |-> <<"1", "D">>,
             secured |-> 1, datalen |-> 2, data |-> <<16, 161>>]

\* the event that the line l opens when it is the first line read_event
\* reads: its record's event, or for a line from inside a record, which has
\* no known prefix, Unknown of its text
OpensEvent(l) == IF l.idx = 1 THEN Meaning(l.rec) ELSE Unknown(l.text)

\* the first k records of log are (EV20, descriptor) pairs
PairsUpTo(log, k) ==
    \A i \in 1..k : IF i % 2 = 1 THEN log[i] = "EV20" ELSE log[i] \in PanIds

\* log is (EV20, descriptor)* EV22
CompleteScan(log) ==
    /\ Len(log) % 2 = 1
    /\ PairsUpTo(log, Len(log) - 1)
    /\ log[Len(log)] = "EV22"

\* the descriptors of the pairs of log, in the order of the log
DescriptorsOf(log) == [i \in 1..(Len(log) \div 2) |-> Meaning(log[2 * i]).pan]

(***************************************************************************)
(* C1.  scan: once the command is acknowledged, when the records taken off *)
(* the wire are (EVENT 20, EPANDESC record) n times and then EVENT 22,      *)
(* scan has returned exactly those n descriptors in the order received,    *)
(* and it took no line after the EVENT 22 line: 2 + 8n + 1 lines in all.   *)
(***************************************************************************)
C1_ScanReturnsPeersInOrder ==
    (op = "scan" /\ CompleteScan(scanned)) =>
        /\ pc = "done"
        /\ result = Ok(DescriptorsOf(scanned))
        /\ nlines = 2 + 8 * (Len(scanned) \div 2) + 1
        /\ last.rec = "EV22"

C1_Witness ==
    /\ op = "scan" /\ pc = "done"
    /\ scanned = <<"EV20", "PAN_B", "EV20", "PAN_A", "EV22">>
    /\ result.tag = "Ok" /\ Len(result.val) = 2
    /\ result.val[1].channel = 59 /\ result.val[2].channel = 33

(***************************************************************************)
(* C2.  scan accepts only (EVENT 20, EPANDESC)* EVENT 22.  When, after     *)
(* accepted pairs, the next event is a well-formed event that is not       *)
(* EVENT 20 or EVENT 22 at the top of the loop, or is not an EPANDESC      *)
(* right after an EVENT 20, scan has failed with UnexpectedEvent carrying  *)
(* that event; and scan returns Ok only for a complete accepted sequence.  *)
(***************************************************************************)
OffendingScan(log) ==
    /\ Len(log) >= 1
    /\ PairsUpTo(log, Len(log) - 1)
    /\ log[Len(log)] \in WellFormedIds
    /\ IF Len(log) % 2 = 1 THEN log[Len(log)] \notin {"EV20", "EV22"}
       ELSE log[Len(log)] \notin PanIds

C2_ScanRejectsOtherEvents ==
    op = "scan" =>
        /\ OffendingScan(scanned) =>
              /\ pc = "done"
              /\ result = Err(ErrUnexpectedEvent(Meaning(scanned[Len(scanned)])))
        /\ (pc = "done" /\ result.tag = "Ok") => CompleteScan(scanned)
        /\ pc \in {"loop", "pan"} =>
              /\ PairsUpTo(scanned, Len(scanned))
              /\ (Len(scanned) % 2 = 1) <=> (pc = "pan")

C2_Witness ==
    /\ op = "scan" /\ pc = "done"
    /\ scanned = <<"EV20", "PAN_A", "RXUDP">>
    /\ result.tag = "Err" /\ result.err.kind = "UnexpectedEvent"
    /\ result.err.event.type = "ERXUDP"

(***************************************************************************)
(* C3.  scan at the end of the stream: after the acknowledgement and only  *)
(* whole (EVENT 20, EPANDESC) pairs, when the source reports the end of    *)
(* the stream, scan is still running: no result, no error, no crash.       *)
(***************************************************************************)
C3_ScanWaitsAtEndOfStream ==
    (/\ op = "scan" /\ nlines >= 2 /\ cause = "eof"
     /\ Len(scanned) % 2 = 0 /\ PairsUpTo(scanned, Len(scanned)))
        => pc # "done"

(***************************************************************************)
(* C4.  join: in the event loop, the step that reads an EVENT 24 line ends *)
(* join with UnexpectedEvent carrying that notification, whatever was read *)
(* before; join is done in that very step, so it reads no further line.    *)
(***************************************************************************)
C4_JoinFailsAtOnceOn24 ==
    [][(/\ op = "join" /\ pc = "loop"
        /\ nlines' = nlines + 1
        /\ Head(stream).rec = "EV24")
            => /\ pc' = "done"
               /\ result' = Err(ErrUnexpectedEvent(Meaning("EV24")))
               /\ stream' = Tail(stream)]_vars

C4_Witness ==
    /\ op = "join" /\ pc = "done"
    /\ ignored = 2
    /\ last.rec = "EV24"
    /\ result.tag = "Err" /\ result.err.kind = "UnexpectedEvent"
    /\ result.err.event.code = 36

(***************************************************************************)
(* C5.  join: in the event loop, an event that is neither EVENT 25 nor     *)
(* EVENT 24 is passed over and join keeps reading; EVENT 25 ends join with *)
(* success in the step that reads it; EVENT 24 ends it with an error; and  *)
(* join has succeeded only when the last line it took is an EVENT 25.      *)
(***************************************************************************)
C5_JoinStep ==
    (/\ op = "join" /\ pc = "loop"
     /\ nlines' = nlines + 1
     /\ Head(stream).idx = Head(stream).of
     /\ Head(stream).rec \in WellFormedIds)
        => IF Head(stream).rec = "EV25"
           THEN pc' = "done" /\ result' = Ok(<<>>)
           ELSE IF Head(stream).rec = "EV24"
           THEN pc' = "done" /\ result'.tag = "Err"
           ELSE pc' = "loop" /\ result' = None /\ ignored' = ignored + 1

C5_JoinPassesOverOtherEvents ==
    /\ [][C5_JoinStep]_vars
    /\ []((op = "join" /\ pc = "done" /\ result.tag = "Ok") => last.rec = "EV25")

C5_Witness ==
    /\ op = "join" /\ pc = "done"
    /\ result = Ok(<<>>)
    /\ ignored = 2
    /\ last.rec = "EV25"
    /\ nlines = 11

(***************************************************************************)
(* C6.  Every command operation has written its command before it takes a  *)
(* line, and the first line it takes, and only that one, is dropped        *)
(* unread: no content of that line makes the operation fail.               *)
(***************************************************************************)
C6_OneEchoLineDiscarded ==
    op \in CmdOps =>
        /\ discarded = (IF nlines = 0 THEN 0 ELSE 1)
        /\ nlines >= 1 => wrote = 1
        /\ (pc = "echo") <=> (pc # "done" /\ nlines = 0)
        /\ pc = "echo" => wrote = 1
        /\ (pc = "done" /\ nlines = 1 /\ result.tag = "Err") => result.err.kind = "Io"
        /\ (pc = "done" /\ result.tag = "Ok") => discarded = 1

C6_Witness ==
    /\ op = "join" /\ pc = "ok"
    /\ last.rec = "EV24"
    /\ nlines = 1 /\ discarded = 1 /\ wrote = 1

(***************************************************************************)
(* C7.  Ordering: every line an operation takes is the first unread line   *)
(* of the wire, handed over as it was emitted, and taking it removes       *)
(* exactly that line; the wire changes in no other way than by the adapter *)
(* emitting; and the event read_event returns is the event of the record   *)
(* it took.                                                                *)
(***************************************************************************)
C7_TakeStep ==
    /\ nlines' # nlines =>
          \/ nlines' = 0 /\ stream' = stream
          \/ /\ nlines' = nlines + 1
             /\ stream # <<>>
             /\ last'.text = Head(stream).text
             /\ last'.rec = Head(stream).rec /\ last'.idx = Head(stream).idx
             /\ stream' = Tail(stream)
    /\ (nlines' = nlines /\ stream' # stream) =>
          /\ stream = <<>>
          /\ UNCHANGED <<op, pc, result, last>>

C8_VersionSequence ==
    op = "version" =>
        /\ (nlines >= 2 /\ last.idx = last.of /\ nlines = 1 + last.of
            /\ last.rec \in WellFormedIds \ {"EVER"})
              => /\ pc = "done"
                 /\ result = Err(ErrUnexpectedEvent(Meaning(last.rec)))
        /\ (pc = "done" /\ result.tag = "Err" /\ result.err.kind = "UnexpectedEvent")
              => /\ result.err.event.type # "EVER"
                 /\ \/ /\ nlines = 1 + last.of /\ last.idx = last.of
                       /\ result.err.event = Meaning(last.rec)
                    \/ /\ nlines = 2 /\ last.idx > 1
                       /\ result.err.event = Unknown(last.text)
        /\ (nlines = 3 /\ last.of = 1)
              => /\ pc = "done"
                 /\ result = IF last.text = OKText THEN Ok(Meaning("EVER").version)
                             ELSE Err(ErrExpectOK(last.text))
        /\ (pc = "done" /\ result.tag = "Ok") => nlines = 3 /\ last.text = OKText
        /\ (pc = "done" /\ result.tag = "Err" /\ result.err.kind = "ExpectOK")
              => nlines = 3 /\ result.err.line = last.text /\ last.text # OKText

C8_Witness ==
    /\ op = "version" /\ pc = "done"
    /\ nlines = 3
    /\ result = Err(ErrExpectOK(L_EV25))

(***************************************************************************)
(* C9.  set_password, set_rbid, set_register, scan and join: the line      *)
(* after the echo must be exactly "OK"; any other line, a well-formed      *)
(* event line included, ends the operation with ExpectOK carrying that     *)
(* line after exactly two lines, and scan and join have not entered their  *)
(* event loop.                                                             *)
(***************************************************************************)
AckOps == {"set_password", "set_rbid", "set_register", "scan", "join"}

C9_AcknowledgementRequired ==
    op \in AckOps =>
        /\ (nlines = 2 /\ last.text # OKText)
              => pc = "done" /\ result = Err(ErrExpectOK(last.text))
        /\ (pc = "done" /\ result.tag = "Err" /\ result.err.kind = "ExpectOK")
              => /\ nlines = 2
                 /\ result.err.line = last.text
                 /\ last.text # OKText
                 /\ scanned = <<>> /\ found = <<>> /\ ignored = 0
        /\ (pc \in {"loop", "pan"} /\ nlines = 2) => last.text = OKText
        /\ pc \in {"loop", "pan"} => nlines >= 2

C9_Witness ==
    /\ op = "join" /\ pc = "done"
    /\ nlines = 2
    /\ result = Err(ErrExpectOK(L_RXUDP))

(***************************************************************************)
(* C10.  Timeout: when the poll of a waiting read or write runs out of     *)
(* time, the operation has ended with the io error of kind TimedOut; no    *)
(* other failure yields that kind; the operation took no further line and  *)
(* wrote its command at most once.                                         *)
(***************************************************************************)
C10_TimeoutIsDistinct ==
    /\ cause = "timeout" => pc = "done" /\ result = Err(ErrIo("TimedOut"))
    /\ (pc = "done" /\ result.tag = "Err" /\ result.err.kind = "Io"
        /\ result.err.iokind = "TimedOut") => cause = "timeout"
    /\ wrote <= 1

C10_Witness ==
    /\ op = "scan" /\ pc = "done"
    /\ cause = "timeout"
    /\ wrote = 1 /\ nlines = 10
    /\ result = Err(ErrIo("TimedOut"))

(***************************************************************************)
(* The line reader on its own: read_line called again and again on a       *)
(* BufReader over a source that hands out a byte stream in chunks, one     *)
(* chunk per read, and then reports the end of the stream.                 *)
(***************************************************************************)
\* the bytes a stream is made of: a content byte, CR and LF
StreamBytes == {"a", "\r", "\n"}

Streams == UNION {[1..n -> StreamBytes] : n \in 0..MaxStream}

\* the stream s handed out by reads that end at byte k and at its last byte
Chunks(s, k) ==
    IF s = <<>> THEN <<>>
    ELSE IF k = Len(s) THEN <<s>>
    ELSE <<SubSeq(s, 1, k), SubSeq(s, k + 1, Len(s))>>

\* where the first read of the stream s may end
Cuts(s) == IF s = <<>> THEN {0} ELSE 1..Len(s)

RECURSIVE Flatten(_)
Flatten(cs) == IF cs = <<>> THEN <<>> ELSE Head(cs) \o Flatten(Tail(cs))

\* a BufReader over the chunks cs with nothing read yet
NewReader(s, k) ==
    [pc |-> "idle", all |-> s, cut |-> k, chunks |-> Chunks(s, k),
     inner |-> <<>>, buf |-> <<>>, read |-> 0, out |-> <<>>]

\* BufReader::fill_buf: the bytes it holds, or else one read of the source
fill_buf(r) ==
    IF r.inner # <<>> THEN r.inner
    ELSE IF r.chunks # <<>> THEN Head(r.chunks)
    ELSE <<>>

\* read_line is called: a fresh buf, read_until_crlf starts with read = 0
reader_call(r) == [r EXCEPT !.pc = "loop", !.buf = <<>>, !.read = 0]

\* one turn of the loop of read_until_crlf, and the rest of read_line when
\* the loop returns
reader_turn(r) ==
    LET available == fill_buf(r)
        m == ScanAvailable(available)
        buf == r.buf \o m.bytes
        read == r.read + m.used
        inner == SubSeq(available, m.used + 1, Len(available))
        chunks == IF r.inner = <<>> /\ r.chunks # <<>> THEN Tail(r.chunks)
                  ELSE r.chunks
        line == StripTerminator(buf)
    IN  IF m.done \/ m.used = 0
        THEN [r EXCEPT !.pc = IF line = Panic THEN "dead" ELSE "idle",
                       !.inner = inner, !.chunks = chunks,
                       !.buf = buf, !.read = read,
                       !.out = Append(r.out, [line |-> line, n |-> read, buf |-> buf,
                                              rest |-> inner \o Flatten(chunks)])]
        ELSE [r EXCEPT !.inner = inner, !.chunks = chunks,
                       !.buf = buf, !.read = read]

ReaderInit ==
    /\ SessionAtRest
    /\ codec = Idle /\ parser = Idle /\ request = Idle /\ caller = Idle
    /\ reader \in UNION {{NewReader(s, k) : k \in Cuts(s)} : s \in Streams}

ReaderCall ==
    /\ reader.pc = "idle"
    /\ reader' = reader_call(reader)
    /\ UNCHANGED <<session, codec, parser, request, caller>>

ReaderTurn ==
    /\ reader.pc = "loop"
    /\ reader' = reader_turn(reader)
    /\ UNCHANGED <<session, codec, parser, request, caller>>

ReaderNext == ReaderCall \/ ReaderTurn

SpecReader == ReaderInit /\ [][ReaderNext]_vars

\* the reader run to its end: every call of read_line until one panics
RECURSIVE RunReader(_)
RunReader(r) ==
    IF r.pc = "dead" THEN r
    ELSE IF r.pc = "idle" THEN RunReader(reader_call(r))
    ELSE RunReader(reader_turn(r))

\* the lines a reader has returned
LinesOf(r) == [i \in 1..Len(r.out) |-> r.out[i].line]

(***************************************************************************)
(* C13.  Split reads: when the reader has run to its end on a stream       *)
(* handed out in two reads, the lines it returned are the lines returned   *)
(* when the same stream is handed out in one read.                         *)
(***************************************************************************)
C13_SplitReadEquivalence ==
    reader.pc = "dead" =>
        LinesOf(reader) = LinesOf(RunReader(NewReader(reader.all, Len(reader.all))))

(***************************************************************************)
(* C14.  Basic framing: when the first read hands out content without CR   *)
(* followed by CR LF, the first call of read_line has put exactly the      *)
(* content and the two terminator bytes in buf, read_until_crlf has        *)
(* counted and consumed exactly these bytes, and read_line has returned    *)
(* the content.                                                            *)
(***************************************************************************)
FirstCR(s) == FindFrom(s, "\r", 1)

TerminatedInFirstRead(r) ==
    /\ FirstCR(r.all) # 0
    /\ FirstCR(r.all) + 1 <= r.cut
    /\ FirstCR(r.all) + 1 <= Len(r.all)
    /\ r.all[FirstCR(r.all) + 1] = "\n"

C14_BasicFraming ==
    (reader.pc # "off" /\ TerminatedInFirstRead(reader)) =>
        /\ reader.pc = "loop" /\ reader.out = <<>> => reader.buf = <<>>
        /\ Len(reader.out) >= 1 =>
              LET n == FirstCR(reader.all) + 1
              IN  /\ reader.out[1].buf = SubSeq(reader.all, 1, n)
                  /\ reader.out[1].n = n
                  /\ reader.out[1].rest = SubSeq(reader.all, n + 1, Len(reader.all))
                  /\ reader.out[1].line = Ok(SubSeq(reader.all, 1, n - 2))

C14_Witness ==
    /\ reader.pc = "idle"
    /\ reader.all = <<"a", "a", "\r", "\n">> /\ reader.cut = 4
    /\ Len(reader.out) = 1
    /\ reader.out[1].line = Ok(<<"a", "a">>)
    /\ reader.out[1].n = 4

\* the bytes not yet taken from the source when the i-th call began
UnreadBefore(r, i) == IF i = 1 THEN r.all ELSE r.out[i - 1].rest

\* position of the CR of the first CR LF pair of s at or after i, 0 if none
RECURSIVE FirstCRLF(_, _)
FirstCRLF(s, i) ==
    IF i + 1 > Len(s) THEN 0
    ELSE IF s[i] = "\r" /\ s[i + 1] = "\n" THEN i
    ELSE FirstCRLF(s, i + 1)

(***************************************************************************)
(* C24.  End of stream: a call of read_line that meets the end of the      *)
(* stream with no CR LF pair among the unread bytes returns exactly these  *)
(* bytes, without an error and without a panic.                            *)
(***************************************************************************)
C24_EndOfStreamReturnsPartialLine ==
    reader.pc # "off" =>
        \A i \in 1..Len(reader.out) :
            FirstCRLF(UnreadBefore(reader, i), 1) = 0
                => reader.out[i].line = Ok(UnreadBefore(reader, i))

(***************************************************************************)
(* C25.  Delimiting: a call of read_line that begins with a CR LF pair     *)
(* among the unread bytes returns the bytes before the first pair and      *)
(* leaves the bytes behind that pair unread.                               *)
(***************************************************************************)
C25_LineEndsAtFirstCRLF ==
    reader.pc # "off" =>
        \A i \in 1..Len(reader.out) :
            LET u == UnreadBefore(reader, i)
                p == FirstCRLF(u, 1)
            IN  p # 0 => /\ reader.out[i].line = Ok(SubSeq(u, 1, p - 1))
                         /\ reader.out[i].rest = SubSeq(u, p + 2, Len(u))

(***************************************************************************)
(* The line reader over a source whose reads can run out of time: the      *)
(* TTYPort with a timeout set.                                             *)
(***************************************************************************)
\* poll(2) found nothing to read before the timeout
PollTimedOut == [res |-> "Ok", n |-> 0, revents |-> {}]

\* a faulty reader: the bytes taken before the timeout are handed out again
reader_timeout_resumes(r) ==
    LET src == TTYRead(PollTimedOut, [res |-> "Ok", bytes |-> <<>>])
    IN  [r EXCEPT !.pc = "idle", !.inner = r.buf,
                  !.out = Append(r.out, [line |-> read_line(src), n |-> r.read,
                                         buf |-> r.buf,
                                         rest |-> r.buf \o Flatten(r.chunks)])]

\* fill_buf has to read the source and the read runs out of time:
\* read_until_crlf returns the error, read_line returns it and its buf, with
\* the bytes taken so far, is gone
reader_timeout(r) ==
    LET src == TTYRead(PollTimedOut, [res |-> "Ok", bytes |-> <<>>])
    IN  [r EXCEPT !.pc = "idle",
                  !.out = Append(r.out, [line |-> read_line(src), n |-> r.read,
                                         buf |-> r.buf,
                                         rest |-> Flatten(r.chunks)])]

\* the calls that ended with the timeout
TimedOutCalls(r) ==
    {i \in 1..Len(r.out) : r.out[i].line = Err(ErrIo("TimedOut"))}

LossyReaderInit == ReaderInit

ReaderTimeout ==
    /\ reader.pc = "loop"
    /\ reader.inner = <<>>
    /\ Cardinality(TimedOutCalls(reader)) < MaxTimeouts
    /\ reader' = reader_timeout(reader)
    /\ UNCHANGED <<session, codec, parser, request, caller>>

LossyReaderNext == ReaderCall \/ ReaderTurn \/ ReaderTimeout

SpecLossyReader == LossyReaderInit /\ [][LossyReaderNext]_vars

(***************************************************************************)
(* C27.  Timeout in mid-line: a call of read_line that ends with the       *)
(* timeout returns only the error; the bytes it had taken are gone, the    *)
(* unread bytes are the bytes behind them, and the next call that returns  *)
(* a line takes it from these alone, so it returns the remainder of the    *)
(* interrupted line.                                                       *)
(***************************************************************************)
C27_TimeoutDropsPartialLine ==
    reader.pc # "off" =>
        \A i \in TimedOutCalls(reader) :
            LET u == UnreadBefore(reader, i)
                n == reader.out[i].n
            IN  /\ reader.out[i].buf = SubSeq(u, 1, n)
                /\ reader.out[i].rest = SubSeq(u, n + 1, Len(u))
                /\ (i < Len(reader.out) /\ reader.out[i + 1].line.tag = "Ok")
                      => reader.out[i + 1].buf \o reader.out[i + 1].rest
                            = SubSeq(u, n + 1, Len(u))

C27_Witness ==
    /\ reader.all = <<"a", "a", "\r", "\n">> /\ reader.cut = 1
    /\ Len(reader.out) = 2
    /\ reader.out[1].line = Err(ErrIo("TimedOut")) /\ reader.out[1].buf = <<"a">>
    /\ reader.out[2].line = Ok(<<"a">>)

(***************************************************************************)
(* The frame codec on its own (src/src/echonet_lite.rs): a frame value is  *)
(* encoded by as_bytes; the bytes, as they are, cut short or with one byte *)
(* altered, are decoded by from_bytes.  Bytes are numbers 0..255.          *)
(***************************************************************************)
\* #[repr(u8)] enum EHD2 and its derived TryFrom<u8>
EHD2Byte == [Format1 |-> 129, Format2 |-> 130]

\* #[repr(u8)] enum ESV and its derived TryFrom<u8>
ESVByte == [SetI |-> 96, SetC |-> 97, Get |-> 98, INF_REQ |-> 99, SetGet |-> 110]

\* impl From<TryFromPrimitiveError<T>> for Error
ErrTryFromPrimitive(enum, number) ==
    [kind |-> "TryFromPrimitive", enum |-> enum, number |-> number]

\* T::try_from(number) for the enum with discriminants bytesOf
TryFromU8(enum, bytesOf, number) ==
    IF \E v \in DOMAIN bytesOf : bytesOf[v] = number
    THEN Ok(CHOOSE v \in DOMAIN bytesOf : bytesOf[v] = number)
    ELSE Err(ErrTryFromPrimitive(enum, number))

\* TID::to_be_bytes and TID::from_be_bytes
to_be_bytes(tid) == <<tid \div 256, tid % 256>>
from_be_bytes(hi, lo) == hi * 256 + lo

EOJ(x1, x2, x3) == [x1 |-> x1, x2 |-> x2, x3 |-> x3]
EProp(epc, pdc, edt) == [epc |-> epc, pdc |-> pdc, edt |-> edt]
Format1(seoj, deoj, esv, opc, props) ==
    [format |-> "Format1", seoj |-> seoj, deoj |-> deoj, esv |-> esv,
     opc |-> opc, props |-> props]
Format2(data) == [format |-> "Format2", data |-> data]
EFrame(ehd1, ehd2, tid, edata) ==
    [ehd1 |-> ehd1, ehd2 |-> ehd2, tid |-> tid, edata |-> edata]

\* EOJ::as_bytes and EProp::as_bytes
EOJ_as_bytes(eoj) == <<eoj.x1, eoj.x2, eoj.x3>>
EProp_as_bytes(prop) == <<prop.epc, prop.pdc>> \o prop.edt

RECURSIVE PropsBytes(_)
PropsBytes(props) ==
    IF props = <<>> THEN <<>>
    ELSE EProp_as_bytes(Head(props)) \o PropsBytes(Tail(props))

\* a faulty as_bytes: the transaction id is written low byte first
as_bytes_tid_le(f) ==
    <<f.ehd1, EHD2Byte[f.ehd2]>> \o <<f.tid % 256, f.tid \div 256>>
    \o (IF f.edata.format = "Format1"
        THEN EOJ_as_bytes(f.edata.seoj) \o EOJ_as_bytes(f.edata.deoj)
             \o <<ESVByte[f.edata.esv], f.edata.opc>> \o PropsBytes(f.edata.props)
        ELSE f.edata.data)

\* EFrame::as_bytes
as_bytes(f) ==
    <<f.ehd1, EHD2Byte[f.ehd2]>> \o to_be_bytes(f.tid)
    \o (IF f.edata.format = "Format1"
        THEN EOJ_as_bytes(f.edata.seoj) \o EOJ_as_bytes(f.edata.deoj)
             \o <<ESVByte[f.edata.esv], f.edata.opc>> \o PropsBytes(f.edata.props)
        ELSE f.edata.data)

\* the for loop of from_bytes with left turns to go; tail_cursor counts from
\* 0 as in the source, bytes is indexed from 1; an index or a slice past the
\* end of bytes panics
RECURSIVE ParseProps(_, _, _, _)
ParseProps(bytes, tail_cursor, left, props) ==
    IF left = 0 THEN Ok(props)
    ELSE IF tail_cursor + 1 >= Len(bytes) THEN Panic
    ELSE LET epc == bytes[tail_cursor + 1]
             pdc == bytes[tail_cursor + 2]
             from == tail_cursor + 2
         IN  IF from + pdc > Len(bytes) THEN Panic
             ELSE ParseProps(bytes, from + pdc, left - 1,
                             Append(props, EProp(epc, pdc,
                                                 SubSeq(bytes, from + 1, from + pdc))))

\* the Format1 arm of from_bytes: the properties are read first, the service
\* byte is converted after them
FromBytesFormat1(bytes) ==
    IF Len(bytes) < 12 THEN Panic
    ELSE LET props == ParseProps(bytes, 12, bytes[12], <<>>)
             esv == TryFromU8("ESV", ESVByte, bytes[11])
         IN  IF props.tag # "Ok" THEN props
             ELSE IF esv.tag # "Ok" THEN esv
             ELSE Ok(Format1(EOJ(bytes[5], bytes[6], bytes[7]),
                             EOJ(bytes[8], bytes[9], bytes[10]),
                             esv.val, bytes[12], props.val))

\* a faulty from_bytes: a discriminator that is not Format1 is taken for
\* Format2
from_bytes_format2_by_default(bytes) ==
    IF Len(bytes) < 2 THEN Panic
    ELSE LET edata == IF bytes[2] = EHD2Byte.Format1 THEN FromBytesFormat1(bytes)
                      ELSE IF Len(bytes) < 4 THEN Panic
                      ELSE Ok(Format2(SubSeq(bytes, 5, Len(bytes))))
         IN  IF edata.tag # "Ok" THEN edata
             ELSE Ok(EFrame(bytes[1],
                            IF bytes[2] = EHD2Byte.Format1 THEN "Format1" ELSE "Format2",
                            from_be_bytes(bytes[3], bytes[4]), edata.val))

\* EFrame::from_bytes
from_bytes(bytes) ==
    IF Len(bytes) < 2 THEN Panic
    ELSE LET ehd2 == TryFromU8("EHD2", EHD2Byte, bytes[2])
         IN  IF ehd2.tag # "Ok" THEN ehd2
             ELSE LET edata == IF ehd2.val = "Format1" THEN FromBytesFormat1(bytes)
                               ELSE IF Len(bytes) < 4 THEN Panic
                               ELSE Ok(Format2(SubSeq(bytes, 5, Len(bytes))))
                  IN  IF edata.tag # "Ok" THEN edata
                      ELSE Ok(EFrame(bytes[1], ehd2.val,
                                     from_be_bytes(bytes[3], bytes[4]), edata.val))

\* the frame values the codec is run on: any value of the types can be
\* built, so opc and pdc are chosen apart from props and edt
TidChoices == {4660, 255}
EdtChoices == {<<>>, <<1>>, <<1, 2>>}
PropChoices == {EProp(231, Len(edt) + d, edt) : d \in {0, 1}, edt \in EdtChoices}
PropLists == UNION {[1..n -> PropChoices] : n \in 0..MaxProps}
FrameChoices ==
    {EFrame(16, "Format1", t,
            Format1(EOJ(5, 255, 1), EOJ(2, 136, 1), e, n, ps)) :
        t \in TidChoices, e \in {"Get", "SetC"}, n \in 0..MaxProps, ps \in PropLists}
    \cup {EFrame(16, "Format2", t, Format2(d)) : t \in TidChoices, d \in EdtChoices}

\* the values one byte of the encoding is altered to, by offset
AlterChoices == [o \in {1, 10} |-> IF o = 1 THEN {128, 0} ELSE {114, 0}]

CodecInit ==
    /\ SessionAtRest
    /\ reader = Idle /\ parser = Idle /\ request = Idle /\ caller = Idle
    /\ codec \in {[pc |-> "frame", frame |-> f, bytes |-> <<>>, how |-> "none",
                   buf |-> <<>>, decoded |-> None] : f \in FrameChoices}

\* frame.as_bytes()
Encode ==
    /\ codec.pc = "frame"
    /\ codec' = [codec EXCEPT !.pc = "bytes", !.bytes = as_bytes(codec.frame)]
    /\ UNCHANGED <<session, reader, parser, request, caller>>

\* the encoding arrives whole
Deliver ==
    /\ codec.pc = "bytes"
    /\ codec' = [codec EXCEPT !.pc = "wire", !.how = "whole", !.buf = codec.bytes]
    /\ UNCHANGED <<session, reader, parser, request, caller>>

\* the encoding arrives cut short
Truncate ==
    /\ codec.pc = "bytes"
    /\ \E k \in 0..(Len(codec.bytes) - 1) :
          codec' = [codec EXCEPT !.pc = "wire", !.how = "cut",
                                 !.buf = SubSeq(codec.bytes, 1, k)]
    /\ UNCHANGED <<session, reader, parser, request, caller>>

\* the encoding arrives with the byte at offset 1 or at offset 10 altered
Alter ==
    /\ codec.pc = "bytes"
    /\ \E o \in DOMAIN AlterChoices : \E b \in AlterChoices[o] :
          /\ o + 1 <= Len(codec.bytes)
          /\ codec' = [codec EXCEPT !.pc = "wire", !.how = "altered",
                                    !.buf = [codec.bytes EXCEPT ![o + 1] = b]]
    /\ UNCHANGED <<session, reader, parser, request, caller>>

\* EFrame::from_bytes(&data)
Decode ==
    /\ codec.pc = "wire"
    /\ codec' = [codec EXCEPT !.pc = "done", !.decoded = from_bytes(codec.buf)]
    /\ UNCHANGED <<session, reader, parser, request, caller>>

CodecNext == Encode \/ Deliver \/ Truncate \/ Alter \/ Decode

SpecCodec == CodecInit /\ [][CodecNext]_vars

\* a frame whose count byte and length bytes say what it holds
ValidFrame(f) ==
    IF f.edata.format = "Format1"
    THEN /\ f.ehd2 = "Format1"
         /\ f.edata.opc = Len(f.edata.props)
         /\ \A i \in 1..Len(f.edata.props) :
                f.edata.props[i].pdc = Len(f.edata.props[i].edt)
    ELSE f.ehd2 = "Format2"

(***************************************************************************)
(* C15.  Round trip: the encoding of a structurally valid frame, decoded   *)
(* as it is, gives back the frame field for field.                         *)
(***************************************************************************)
C15_FrameRoundTrip ==
    (codec.pc = "done" /\ codec.how = "whole" /\ ValidFrame(codec.frame))
        => codec.decoded = Ok(codec.frame)

C15_Witness ==
    /\ codec.pc = "done" /\ codec.how = "whole"
    /\ codec.frame.tid = 4660
    /\ codec.frame.edata.format = "Format1"
    /\ codec.frame.edata.opc = 2
    /\ codec.frame.edata.props = <<EProp(231, 2, <<1, 2>>), EProp(231, 0, <<>>)>>
    /\ codec.decoded = Ok(codec.frame)

\* the count byte of a Format1 buffer declares left properties from offset
\* cursor on, and the buffer ends before they do
RECURSIVE PropsRunPast(_, _, _)
PropsRunPast(bytes, cursor, left) ==
    /\ left > 0
    /\ \/ cursor + 2 > Len(bytes)
       \/ cursor + 2 + bytes[cursor + 2] > Len(bytes)
       \/ PropsRunPast(bytes, cursor + 2 + bytes[cursor + 2], left - 1)

\* a buffer shorter than the structure it declares
ShorterThanDeclared(bytes) ==
    \/ Len(bytes) < 2
    \/ /\ bytes[2] = 129
       /\ \/ Len(bytes) < 12
          \/ PropsRunPast(bytes, 12, bytes[12])
    \/ bytes[2] = 130 /\ Len(bytes) < 4

(***************************************************************************)
(* C16.  Short input: decoding a buffer shorter than the structure it      *)
(* declares ends with a Truncated error value, not with a frame and not    *)
(* with a panic.                                                           *)
(***************************************************************************)
C16_ShortInputIsTruncatedError ==
    (codec.pc = "done" /\ ShorterThanDeclared(codec.buf))
        => codec.decoded.tag = "Err" /\ codec.decoded.err.kind = "Truncated"

(***************************************************************************)
(* C17.  Format discriminator: decoding a buffer whose byte at offset 1 is *)
(* neither 0x81 nor 0x82 ends with the enum conversion error for that      *)
(* byte, whatever the other bytes are.                                     *)
(***************************************************************************)
C17_DiscriminatorRejected ==
    (codec.pc = "done" /\ Len(codec.buf) >= 2 /\ codec.buf[2] \notin {129, 130})
        => codec.decoded = Err(ErrTryFromPrimitive("EHD2", codec.buf[2]))

C17_Witness ==
    /\ codec.pc = "done" /\ codec.how = "altered"
    /\ Len(codec.buf) = 16
    /\ codec.buf[2] = 128
    /\ codec.decoded = Err(ErrTryFromPrimitive("EHD2", 128))

(***************************************************************************)
(* C18.  Service code: decoding a Format1 buffer whose byte at offset 10   *)
(* is no service code of the enumeration ends with an error value.         *)
(***************************************************************************)
C18_ServiceCodeRejected ==
    (/\ codec.pc = "done" /\ Len(codec.buf) >= 11 /\ codec.buf[2] = 129
     /\ \A v \in DOMAIN ESVByte : ESVByte[v] # codec.buf[11])
        => codec.decoded.tag = "Err"

\* the length byte of every property written from offset cursor on is the
\* number of data bytes written for it
RECURSIVE LengthBytesMatch(_, _, _)
LengthBytesMatch(bytes, props, cursor) ==
    \/ props = <<>>
    \/ /\ bytes[cursor + 2] = Len(Head(props).edt)
       /\ LengthBytesMatch(bytes, Tail(props), cursor + 2 + Len(Head(props).edt))

(***************************************************************************)
(* C19.  Count fields: in the encoding of any Format1 frame value, the     *)
(* byte at offset 11 is the number of property records written and every   *)
(* property's length byte is the number of its data bytes written.         *)
(***************************************************************************)
C19_EncodedCountsMatch ==
    (codec.pc # "off" /\ codec.pc # "frame" /\ codec.frame.edata.format = "Format1")
        => /\ codec.bytes[12] = Len(codec.frame.edata.props)
           /\ LengthBytesMatch(codec.bytes, codec.frame.edata.props, 12)

(***************************************************************************)
(* read_event on its own: it is called once on the lines of one record;    *)
(* besides the records of the wire, ERXUDP lines with every pairing of a   *)
(* declared length and a hex blob.                                         *)
(***************************************************************************)
\* an ERXUDP line up to its secured field
RxHead == <<"E", "R", "X", "U", "D", "P", " ", "F", "E", " ", "F", "F", " ", "0", "E", "1", "A", " ",
           "0", "E", "1", "A", " ", "1", "D", " ", "1", " ">>

\* datalen fields and data fields
DatalenChoices == {<<"+", "2">>,
                   <<"0", "0", "0", "0">>,
                   <<"0", "0", "0", "1">>,
                   <<"0", "0", "0", "2">>,
                   <<"0", "0", "0", "3">>,
                   <<"2">>}
BlobChoices == {<<>>,
                <<"1", "0">>,
                <<"1", "0", "A", "1">>,
                <<"1", "0", "A">>,
                <<"1", "G">>,
                <<"1", "0", "A", "1", "B", "2">>,
                <<"1", "0", " ", "A", "1">>}

RxLines == {RxHead \o n \o <<" ">> \o b : n \in DatalenChoices, b \in BlobChoices}

\* lines that come close to a known prefix, and lines of a known prefix
\* with tokens missing or with a numeric field that is no number
NearLines ==
    {<<>>,
     <<"E", "V", "E", "R">>,
     <<"E", "V", "E", "N", "T">>,
     <<"E", "R", "X", "U", "D", "P">>,
     <<"e", "v", "e", "n", "t", " ", "2", "0", " ", "F", "E">>,
     <<" ", "E", "V", "E", "N", "T", " ", "2", "0", " ", "F", "E">>,
     <<"E", "P", "A", "N", "D", "E", "S">>}
ShortLines ==
    {<<"E", "V", "E", "N", "T", " ">>,
     <<"E", "V", "E", "N", "T", " ", "2", "0">>,
     <<"E", "R", "X", "U", "D", "P", " ", "F", "E", " ", "F", "F">>,
     <<"E", "R", "X", "U", "D", "P", " ", "F", "E", " ", "F", "F", " ", "Z", "Z", " ", "0", "E", "1", "A", " ", "1", "D", " ", "1", " ", "0", "0", "0", "2", " ", "1", "0", "A", "1">>,
     <<"E", "R", "X", "U", "D", "P", " ", "F", "E", " ", "F", "F", " ", "0", "E", "1", "A", " ", "0", "E", "1", "A", " ", "1", "D", " ", "1">>}

\* field lines with one leading space and with a value that is no number
L_ONESPACE == <<" ", "C", "h", "a", "n", "n", "e", "l", ":", "2", "1">>
L_CH_BAD == <<" ", " ", "C", "h", "a", "n", "n", "e", "l", ":", "Z", "Z">>

\* EPANDESC records whose keys are in another order, and with a field line
\* that read_field_value or from_str_radix rejects
PanRecords ==
    {<<L_PANHDR, L_LQI, L_PAGE, L_PANID, L_ADDR, L_CH_A, L_PAIR>>,
     <<L_PANHDR, L_ONESPACE, L_PAGE, L_PANID, L_ADDR, L_LQI, L_PAIR>>,
     <<L_PANHDR, L_CH_BAD, L_PAGE, L_PANID, L_ADDR, L_LQI, L_PAIR>>,
     <<L_PANHDR, L_CH_A, L_PAGE, L_PANID, L_ADDR, L_NOCOLON, L_PAIR>>}

\* the records read_event is run on, each a sequence of lines
ParserRecords ==
    {RecordLines(id) : id \in RecordIds} \cup {<<l>> : l \in RxLines}
    \cup {<<l>> : l \in NearLines \cup ShortLines} \cup PanRecords

\* the lines that follow the record in the stream
FollowChoices == {<<>>, <<L_OK>>, <<L_PAIR, L_EV22>>}

ParserInit ==
    /\ SessionAtRest
    /\ reader = Idle /\ codec = Idle /\ request = Idle /\ caller = Idle
    /\ parser \in {[pc |-> "reading", lines |-> ls \o f, fld |-> 0, vals |-> <<>>,
                    taken |-> <<>>, res |-> None] :
                        ls \in ParserRecords, f \in FollowChoices}

\* read_event takes its next line
ParserRead ==
    /\ parser.pc = "reading"
    /\ parser.lines # <<>>
    /\ LET e == ReadEventStep(parser.fld, parser.vals, Head(parser.lines))
       IN  parser' =
             IF e.tag = "More"
             THEN [parser EXCEPT !.lines = Tail(parser.lines),
                                 !.taken = Append(parser.taken, Head(parser.lines)),
                                 !.fld = e.fld, !.vals = e.vals]
             ELSE [parser EXCEPT !.pc = "done",
                                 !.lines = Tail(parser.lines),
                                 !.taken = Append(parser.taken, Head(parser.lines)),
                                 !.fld = 0, !.vals = <<>>, !.res = e]
    /\ UNCHANGED <<session, reader, codec, request, caller>>

ParserNext == ParserRead

SpecParser == ParserInit /\ [][ParserNext]_vars

(***************************************************************************)
(* C20.  Inbound datagram length: every ERXUDP event read_event returns    *)
(* has as many data bytes as its datalen field declares.                   *)
(***************************************************************************)
C20_DatagramLengthMatches ==
    (parser.pc = "done" /\ parser.res.tag = "Ok" /\ parser.res.val.type = "ERXUDP")
        => Len(parser.res.val.data) = parser.res.val.datalen

\* the lines the parser started with
ParserGiven == parser.taken \o parser.lines

\* the descriptors that the records with six well-formed field lines stand
\* for: first value channel, then channel page, network id, hardware
\* address, link quality and pairing id
SwappedPan ==
    [channel |-> 225, channel_page |-> 9, pan_id |-> 34952,
     addr |-> <<"0", "0", "1", "D">>, lqi |-> 33, pair_id |-> <<"0", "0", "A", "B">>]
WellFormedPans ==
    {[lines |-> RecordLines(id), pan |-> Meaning(id).pan] : id \in PanIds}
    \cup {[lines |-> <<L_PANHDR, L_LQI, L_PAGE, L_PANID, L_ADDR, L_CH_A, L_PAIR>>,
           pan |-> SwappedPan]}

(***************************************************************************)
(* C21.  PeerDescriptor record: when the lines are the EPANDESC header and *)
(* six well-formed field lines, read_event returns only after it took      *)
(* exactly these seven lines, it returns the descriptor built from the six *)
(* values by position, and the lines that follow are left unread.          *)
(***************************************************************************)
C21_PeerDescriptorRecord ==
    \A w \in WellFormedPans :
        (parser.pc # "off" /\ Len(ParserGiven) >= 7 /\ SubSeq(ParserGiven, 1, 7) = w.lines)
            => /\ parser.pc = "reading" => Len(parser.taken) < 7
               /\ parser.pc = "done" =>
                     /\ parser.taken = w.lines
                     /\ parser.res = Ok([type |-> "EPANDESC", pan |-> w.pan])
                     /\ parser.lines = SubSeq(ParserGiven, 8, Len(ParserGiven))

C21_Witness ==
    /\ parser.pc = "done"
    /\ parser.taken = <<L_PANHDR, L_LQI, L_PAGE, L_PANID, L_ADDR, L_CH_A, L_PAIR>>
    /\ parser.lines = <<L_PAIR, L_EV22>>
    /\ parser.res.tag = "Ok" /\ parser.res.val.pan.channel = 225

(***************************************************************************)
(* C22.  Unrecognized catch-all: when the first line begins with none of   *)
(* "EVER ", "EPANDESC", "EVENT " and "ERXUDP ", read_event returns after   *)
(* that one line, and it returns Unknown with the line as it was read,     *)
(* not an error.                                                           *)
(***************************************************************************)
KnownPrefixes ==
    {<<"E", "V", "E", "R", " ">>, <<"E", "P", "A", "N", "D", "E", "S", "C">>,
     <<"E", "V", "E", "N", "T", " ">>, <<"E", "R", "X", "U", "D", "P", " ">>}

HasKnownPrefix(line) == \E p \in KnownPrefixes : StartsWith(line, p)

C22_UnrecognizedCatchAll ==
    (parser.pc # "off" /\ ParserGiven # <<>> /\ ~HasKnownPrefix(ParserGiven[1]))
        => /\ parser.pc = "reading" => parser.taken = <<>>
           /\ parser.pc = "done" =>
                 /\ parser.taken = <<ParserGiven[1]>>
                 /\ parser.res = Ok([type |-> "Unknown", line |-> ParserGiven[1]])
                 /\ parser.lines = Tail(ParserGiven)

C22_Witness ==
    /\ parser.pc = "done"
    /\ parser.taken = <<<<"E", "V", "E", "N", "T">>>>
    /\ parser.lines = <<L_PAIR, L_EV22>>
    /\ parser.res = Ok([type |-> "Unknown", line |-> <<"E", "V", "E", "N", "T">>])

(***************************************************************************)
(* C26.  Malformed known events: when the first line has a known prefix    *)
(* and a token is missing, a numeric field is not hexadecimal, the hex     *)
(* payload has odd length, or a field line of an EPANDESC record lacks its *)
(* two leading spaces or its key:value, read_event returns an error value. *)
(***************************************************************************)
IsHex(t) == t # <<>> /\ \A i \in 1..Len(t) : t[i] \in DOMAIN HexDigit

MalformedEVENT(line) ==
    LET t == SplitWhitespace(SubSeq(line, 7, Len(line)))
    IN  Len(t) < 2 \/ ~IsHex(t[1])

MalformedERXUDP(line) ==
    LET t == SplitWhitespace(SubSeq(line, 8, Len(line)))
        blob == JoinSpace(SubSeq(t, 8, Len(t)))
    IN  \/ Len(t) < 7
        \/ \E i \in {3, 4, 6, 7} : ~IsHex(t[i])
        \/ Len(blob) % 2 = 1
        \/ \E i \in 1..Len(blob) : blob[i] \notin DOMAIN HexDigit

MalformedField(k, line) ==
    \/ Len(line) < 2 \/ SubSeq(line, 1, 2) # <<" ", " ">>
    \/ FindFrom(line, ":", 3) = 0
    \/ k \in {1, 2, 3, 5}
       /\ ~IsHex(SubSeq(line, FindFrom(line, ":", 3) + 1, Len(line)))

Malformed(lines) ==
    /\ lines # <<>>
    /\ \/ StartsWith(lines[1], <<"E", "V", "E", "N", "T", " ">>) /\ MalformedEVENT(lines[1])
       \/ StartsWith(lines[1], <<"E", "R", "X", "U", "D", "P", " ">>)
          /\ MalformedERXUDP(lines[1])
       \/ /\ lines[1] = <<"E", "P", "A", "N", "D", "E", "S", "C">>
          /\ \E k \in 1..6 : k + 1 <= Len(lines) /\ MalformedField(k, lines[k + 1])

C26_MalformedKnownEvents ==
    (parser.pc = "done" /\ Malformed(ParserGiven)) => parser.res.tag = "Err"

(***************************************************************************)
(* The request loop of the caller (src/examples/get-power.rs,              *)
(* send_echonet_request) on its own.  What send_udp and read_event return  *)
(* to it is drawn from the outcomes the session has: events, among them    *)
(* datagrams that carry frames, and errors, among them the timeout.        *)
(***************************************************************************)
\* Error::is_timeout of the library the example is written against
is_timeout(e) == e.kind = "Io" /\ e.iokind = "TimedOut"

\* get_current_power_frame(tid), one of the frame_fn closures
get_current_power_frame(tid) ==
    EFrame(16, "Format1", tid,
           Format1(EOJ(5, 255, 1), EOJ(2, 136, 1), "Get", 1, <<EProp(231, 0, <<>>)>>))

\* a frame coming in with transaction id tid, and a datagram carrying bytes
InboundFrame(tid) ==
    EFrame(16, "Format1", tid,
           Format1(EOJ(2, 136, 1), EOJ(5, 255, 1), "Get", 1,
                   <<EProp(231, 2, <<1, 2>>)>>))
Datagram(bytes) ==
    ERXUDP(T_FE, <<"F", "F">>, 3610, 3610, <<"1", "D">>, 1, Len(bytes), bytes)

\* what skstack.send_udp(..) returns to the loop
SendResults == {Ok(<<>>), Err(ErrIo("TimedOut")), Err(ErrIo("Uncategorized"))}

\* what skstack.read_event() returns to the loop: datagrams with a frame of
\* either transaction id, a datagram whose service byte (0x72) from_bytes
\* does not accept, other events, the timeout and other errors
ReadEventResults ==
    {Ok(Datagram(as_bytes(InboundFrame(t)))) : t \in TidChoices}
    \cup {Ok(Datagram([as_bytes(InboundFrame(255)) EXCEPT ![11] = 114])),
          Ok(EVENT(33, T_FE)), Ok(Unknown(OKText)),
          Err(ErrIo("TimedOut")), Err(ErrIo("BrokenPipe")), Err(ErrParseInt)}

\* a faulty match on the event: every frame that decodes is returned
RequestOnEvent_any_frame(r, event) ==
    IF event.type = "ERXUDP"
    THEN LET frame == from_bytes(event.data)
         IN  IF frame.tag # "Ok" THEN [r EXCEPT !.pc = "done", !.result = Panic]
             ELSE [r EXCEPT !.pc = "done", !.result = Ok(frame.val)]
    ELSE [r EXCEPT !.passed = r.passed + 1]

\* the match on the event in the inner loop: expect("read frame") panics on
\* a datagram from_bytes does not decode
RequestOnEvent(r, event) ==
    IF event.type = "ERXUDP"
    THEN LET frame == from_bytes(event.data)
         IN  IF frame.tag # "Ok" THEN [r EXCEPT !.pc = "done", !.result = Panic]
             ELSE IF frame.val.tid # r.tid THEN [r EXCEPT !.passed = r.passed + 1]
             ELSE [r EXCEPT !.pc = "done", !.result = Ok(frame.val)]
    ELSE [r EXCEPT !.passed = r.passed + 1]

RequestInit ==
    /\ SessionAtRest
    /\ reader = Idle /\ codec = Idle /\ parser = Idle /\ caller = Idle
    /\ request = [pc |-> "send", tid |-> 0, tried |-> <<>>, passed |-> 0,
                  nread |-> 0, got |-> None, result |-> None]

\* the top of 'request_loop: a transaction id from the random number
\* generator, the frame built with it, and send_udp
RequestSend ==
    /\ request.pc = "send"
    /\ Len(request.tried) < MaxAttempts
    /\ \E tid \in TidChoices : \E sent \in SendResults :
          LET frame == get_current_power_frame(tid)
          IN  request' =
                IF sent.tag = "Ok"
                THEN [request EXCEPT !.pc = "wait", !.tid = frame.tid,
                                     !.tried = Append(request.tried, frame.tid),
                                     !.passed = 0]
                ELSE [request EXCEPT !.pc = "done", !.tid = frame.tid,
                                     !.tried = Append(request.tried, frame.tid),
                                     !.result = sent]
    /\ UNCHANGED <<session, reader, codec, parser, caller>>

\* one turn of the inner loop: read_event and what follows it
RequestRead ==
    /\ request.pc = "wait"
    /\ request.passed < MaxPassed
    /\ \E got \in ReadEventResults :
          LET r == [request EXCEPT !.nread = request.nread + 1, !.got = got]
          IN  request' =
                IF got.tag = "Ok" THEN RequestOnEvent(r, got.val)
                ELSE IF is_timeout(got.err) THEN [r EXCEPT !.pc = "send"]
                ELSE [r EXCEPT !.pc = "done", !.result = got]
    /\ UNCHANGED <<session, reader, codec, parser, caller>>

RequestNext == RequestSend \/ RequestRead

SpecRequest == RequestInit /\ [][RequestNext]_vars

\* the transaction id in the bytes of a frame, big-endian at offsets 2 and 3
TidIn(bytes) == bytes[3] * 256 + bytes[4]

\* the loop is where it was: waiting, same request outstanding, nothing sent
StillWaiting ==
    /\ request'.pc = "wait"
    /\ request'.tid = request.tid
    /\ request'.tried = request.tried
    /\ request'.result = None

(***************************************************************************)
(* C11.  Correlation: while the request with transaction id T is           *)
(* outstanding, a step that reads a datagram whose frame decodes with      *)
(* another id, or an event that is no datagram, leaves the loop waiting    *)
(* with nothing returned and nothing re-sent; a step that reads a frame    *)
(* with id T returns that frame; and only a frame with id T is returned.   *)
(***************************************************************************)
C11_Step ==
    (/\ request.pc = "wait"
     /\ request'.nread = request.nread + 1
     /\ request'.got.tag = "Ok")
        => LET event == request'.got.val
           IN  IF event.type # "ERXUDP" THEN StillWaiting
               ELSE IF event.data[11] \notin {ESVByte[v] : v \in DOMAIN ESVByte} THEN TRUE
               ELSE IF TidIn(event.data) # request.tid THEN StillWaiting
               ELSE /\ request'.pc = "done"
                    /\ request'.result.tag = "Ok"
                    /\ as_bytes(request'.result.val) = event.data

C11_RequestCorrelation ==
    /\ [][C11_Step]_vars
    /\ []((request.pc = "done" /\ request.result.tag = "Ok")
            => /\ request.result.val.tid = request.tid
               /\ request.got = Ok(Datagram(as_bytes(request.result.val))))

C11_Witness ==
    /\ request.pc = "done"
    /\ request.tried = <<4660>>
    /\ request.passed = 1 /\ request.nread = 2
    /\ request.result = Ok(InboundFrame(4660))

(***************************************************************************)
(* C12.  Fresh transaction id: the transaction ids of the attempts of one  *)
(* call are pairwise different.                                            *)
(***************************************************************************)
C12_FreshTransactionId ==
    request.pc # "off" =>
        \A i, j \in 1..Len(request.tried) :
            i # j => request.tried[i] # request.tried[j]

(***************************************************************************)
(* The session on a stream that is already there: the lines of one or two  *)
(* exchanges with the adapter, and no more to come.                        *)
(***************************************************************************)
\* payloads send_udp is called with: the request frame and runs of zeros
PayloadLengths == {0, 1, 10, 26, 255, 256, 4096}
PayloadChoices ==
    {as_bytes(get_current_power_frame(4660))}
    \cup {[i \in 1..n |-> 0] : n \in PayloadLengths}

\* an EPANDESC record whose second field line has no key:value
BadPanLines == <<L_PANHDR, L_CH_A, L_NOCOLON, L_PANID, L_ADDR, L_LQI, L_PAIR>>

WireOf(rec, texts) ==
    [i \in 1..Len(texts) |->
        [text |-> texts[i], rec |-> rec, idx |-> i, of |-> Len(texts)]]

\* the exchange of send_udp and a datagram coming in; an event where the
\* acknowledgement is due, with the acknowledgement still to come and the
\* next exchange behind it; a scan whose descriptor is malformed
ExchangeStreams ==
    {WireLines("ECHO") \o WireLines("EV21") \o WireLines("OK") \o WireLines("RXUDP"),
     WireLines("ECHO") \o WireLines("EV20") \o WireLines("OK")
        \o WireLines("ECHO") \o WireLines("OK"),
     WireLines("ECHO") \o WireLines("OK") \o WireLines("EV20")
        \o WireOf("PAN_BAD", BadPanLines) \o WireLines("EV22")}

ExchangeInit ==
    /\ stream \in ExchangeStreams
    /\ closed = FALSE
    /\ timeout = TRUE
    /\ op = "none"
    /\ pc = "idle"
    /\ fld = 0
    /\ vals = <<>>
    /\ found = <<>>
    /\ ver = <<>>
    /\ result = None
    /\ wrote = 0
    /\ nlines = 0
    /\ discarded = 0
    /\ last = NoLine
    /\ scanned = <<>>
    /\ ignored = 0
    /\ cause = "none"
    /\ sendto \in {[bytes |-> b, cmd |-> None] : b \in PayloadChoices}
    /\ reader = Idle /\ codec = Idle /\ parser = Idle /\ request = Idle /\ caller = Idle

ExchangeNext ==
    \/ version
    \/ set_password
    \/ set_rbid
    \/ scan
    \/ set_register
    \/ get_link_local_addr
    \/ join
    \/ send_udp
    \/ receive
    \/ read_event

SpecExchange == ExchangeInit /\ [][ExchangeNext]_vars

\* a step takes at most the line at the front of the stream and adds none
TakesFromFront == stream' = stream \/ (stream # <<>> /\ stream' = Tail(stream))

\* the step reads a line
ReadsLine == nlines' = nlines + 1

(***************************************************************************)
(* C23.  send_udp: the command has the security field 1 and, as its length *)
(* field, the byte count of the payload in hexadecimal; send_udp writes    *)
(* one command, takes exactly one line, whatever it is, and returns        *)
(* success; the lines behind it stay in the stream, and read_event takes   *)
(* them from the front one at a time.                                      *)
(***************************************************************************)
C23_Command ==
    (op = "send_udp" /\ wrote = 1) =>
        LET t == SplitWhitespace(sendto.cmd.text)
        IN  /\ Len(t) = 6
            /\ t[1] = <<"S", "K", "S", "E", "N", "D", "T", "O">>
            /\ t[5] = <<"1">>
            /\ \A i \in 1..Len(t[6]) : t[6][i] \in DOMAIN HexDigit
            /\ HexValue(t[6]) = Len(sendto.bytes)
            /\ sendto.cmd.payload = sendto.bytes

C23_Step ==
    /\ TakesFromFront
    /\ (op = "send_udp" /\ pc = "echo" /\ ReadsLine)
          => /\ stream' = Tail(stream)
             /\ pc' = "done" /\ result' = Ok(<<>>)
             /\ wrote' = 1 /\ nlines' = 1
    /\ (op = "read_event" /\ ReadsLine)
          => /\ stream' = Tail(stream)
             /\ last' = Head(stream)

C23_SendUdp ==
    /\ [](C23_Command)
    /\ []((op = "send_udp" /\ pc = "done" /\ result.tag = "Ok")
            => (wrote = 1 /\ nlines = 1))
    /\ [][C23_Step]_vars

C23_Witness ==
    /\ Len(sendto.bytes) = 26
    /\ sendto.cmd # None /\ SplitWhitespace(sendto.cmd.text)[6] = <<"0", "0", "1", "A">>
    /\ op = "send_udp" /\ pc = "done" /\ result = Ok(<<>>)
    /\ last.rec = "ECHO"
    /\ Len(stream) = 3 /\ stream[3].rec = "RXUDP"

(***************************************************************************)
(* C28.  No resynchronisation after failure: no step puts a line back; the *)
(* step in which an operation fails with UnexpectedEvent, ExpectOK or a    *)
(* decode error has taken the offending line and leaves the lines behind   *)
(* it at the front of the stream; the call of the next operation leaves    *)
(* them there, and its echo-discard takes the first of them.               *)
(***************************************************************************)
FailsOnLine ==
    /\ pc # "done" /\ pc' = "done"
    /\ result'.tag = "Err"
    /\ result'.err.kind \in {"UnexpectedEvent", "ExpectOK", "Decode", "ParseInt"}

C28_Step ==
    /\ TakesFromFront
    /\ FailsOnLine
          => /\ ReadsLine
             /\ last' = Head(stream)
             /\ stream' = Tail(stream)
    /\ (pc \in {"idle", "done"} /\ pc' \notin {"idle", "done"}) => stream' = stream
    /\ (pc = "echo" /\ ReadsLine)
          => /\ discarded' = discarded + 1
             /\ last' = Head(stream)
             /\ stream' = Tail(stream)

C28_NoResynchronisation == [][C28_Step]_vars

C28_Witness ==
    /\ op = "set_register" /\ pc = "done"
    /\ result = Err(ErrExpectOK(L_ECHO))
    /\ discarded = 1 /\ nlines = 2
    /\ last.rec = "ECHO"
    /\ stream = WireLines("OK")

(***************************************************************************)
(* main of the caller (src/src/main.rs), up to its call of join.  What the *)
(* operations of the session return to it is drawn from their outcomes.    *)
(***************************************************************************)
\* let mut duration = 4; and if duration > 15 { panic!(..) }
FirstDuration == 4
LastDuration == 15

\* what scan returns to main, and what the other operations return
ScanResults ==
    {Ok(<<>>), Ok(<<Meaning("PAN_A").pan>>),
     Ok(<<Meaning("PAN_B").pan, Meaning("PAN_A").pan>>),
     Err(ErrIo("TimedOut")), Err(ErrUnexpectedEvent(Meaning("EV21")))}
CallResults == {Ok(<<>>), Err(ErrExpectOK(L_EV21)), Err(ErrIo("BrokenPipe"))}

\* the calls of main in a row, the scan loop between set_rbid and the first
\* set_register
CallAfter ==
    [version |-> "set_password", set_password |-> "set_rbid", set_rbid |-> "scan",
     set_register_S2 |-> "set_register_S3",
     set_register_S3 |-> "get_link_local_addr",
     get_link_local_addr |-> "join", join |-> "joined"]

\* a faulty loop: the duration is compared with 15 before it is increased
after_scan_gives_up_early(c, res) ==
    LET log == Append(c.calls, [op |-> "scan", duration |-> c.duration, res |-> res])
    IN  IF res.tag = "Err" THEN [c EXCEPT !.pc = "exit", !.calls = log, !.result = res]
        ELSE IF res.val # <<>>
        THEN [c EXCEPT !.pc = "set_register_S2", !.calls = log, !.found = res.val]
        ELSE IF c.duration + 1 >= LastDuration
        THEN [c EXCEPT !.pc = "exit", !.calls = log, !.found = res.val,
                       !.duration = c.duration + 1, !.result = Panic]
        ELSE [c EXCEPT !.calls = log, !.found = res.val, !.duration = c.duration + 1]

\* the body of the loop once scan has returned res
after_scan(c, res) ==
    LET log == Append(c.calls, [op |-> "scan", duration |-> c.duration, res |-> res])
    IN  IF res.tag = "Err" THEN [c EXCEPT !.pc = "exit", !.calls = log, !.result = res]
        ELSE IF res.val # <<>>
        THEN [c EXCEPT !.pc = "set_register_S2", !.calls = log, !.found = res.val]
        ELSE IF c.duration + 1 > LastDuration
        THEN [c EXCEPT !.pc = "exit", !.calls = log, !.found = res.val,
                       !.duration = c.duration + 1, !.result = Panic]
        ELSE [c EXCEPT !.calls = log, !.found = res.val, !.duration = c.duration + 1]

CallerInit ==
    /\ SessionAtRest
    /\ reader = Idle /\ codec = Idle /\ parser = Idle /\ request = Idle
    /\ caller = [pc |-> "version", duration |-> FirstDuration, found |-> <<>>,
                 calls |-> <<>>, result |-> None]

\* one of the calls in a row: skstack.op(..)?
CallerCall ==
    /\ caller.pc \in DOMAIN CallAfter
    /\ \E res \in CallResults :
          LET log == Append(caller.calls,
                            [op |-> caller.pc, duration |-> 0, res |-> res])
          IN  caller' =
                IF res.tag = "Ok"
                THEN [caller EXCEPT !.pc = CallAfter[caller.pc], !.calls = log]
                ELSE [caller EXCEPT !.pc = "exit", !.calls = log, !.result = res]
    /\ UNCHANGED <<session, reader, codec, parser, request>>

\* one turn of the loop: found = skstack.scan(2, 0xFFFFFFFF, duration)?
CallerScan ==
    /\ caller.pc = "scan"
    /\ \E res \in ScanResults : caller' = after_scan(caller, res)
    /\ UNCHANGED <<session, reader, codec, parser, request>>

CallerNext == CallerCall \/ CallerScan

SpecCaller == CallerInit /\ [][CallerNext]_vars

\* the scans main has issued, in order
ScansOf(log) == SelectSeq(log, LAMBDA e : e.op = "scan")

\* the operations main has issued
OpsOf(log) == {log[i].op : i \in 1..Len(log)}

(***************************************************************************)
(* C29.  Scan retry policy: the i-th scan is issued with duration 3 + i,   *)
(* so the first with 4 and none above 15; a scan is issued again only      *)
(* after an empty result, and after an empty result below 15 the next scan *)
(* with the duration increased by 1 is due; no scan follows a non-empty    *)
(* result; after an empty result at 15 the program has aborted; registers  *)
(* are written and join is issued only after a non-empty result.           *)
(***************************************************************************)
C29_ScanRetryPolicy ==
    caller.pc # "off" =>
        LET scans == ScansOf(caller.calls)
            n == Len(scans)
        IN  /\ \A i \in 1..n : scans[i].duration = 3 + i
            /\ n <= 12
            /\ \A i \in 1..(n - 1) : scans[i].res = Ok(<<>>)
            /\ (n > 0 /\ scans[n].res = Ok(<<>>) /\ scans[n].duration < 15)
                  => /\ caller.pc = "scan"
                     /\ caller.duration = scans[n].duration + 1
            /\ (n > 0 /\ scans[n].res = Ok(<<>>) /\ scans[n].duration = 15)
                  => /\ caller.pc = "exit" /\ caller.result = Panic
                     /\ OpsOf(caller.calls) \cap
                            {"set_register_S2", "set_register_S3", "join"} = {}
            /\ (n > 0 /\ scans[n].res.tag = "Ok" /\ scans[n].res.val # <<>>)
                  => caller.pc # "scan"
            /\ OpsOf(caller.calls) \cap {"set_register_S2", "set_register_S3", "join"} # {}
                  => (n > 0 /\ scans[n].res.tag = "Ok" /\ scans[n].res.val # <<>>)

C29_Witness ==
    /\ caller.pc = "exit" /\ caller.result = Panic
    /\ Len(ScansOf(caller.calls)) = 12
    /\ caller.calls[Len(caller.calls)].duration = 15

=============================================================================
